---- MODULE Spec2Model ----
(***************************************************************************)
(* API Token Extractor (Chrome MV3 extension).                             *)
(*                                                                         *)
(* background.js : service worker holding detectedTokens / activeTabId,    *)
(*                 the webRequest, tabs, windows and runtime.onMessage     *)
(*                 handlers, and the storage / cookie scanners.            *)
(* popup.js      : maskToken, renderTokens, loadTokens.                    *)
(*                                                                         *)
(* Strings are sequences of one-character strings.  The service worker is  *)
(* single threaded: a handler runs without interruption from one await on  *)
(* real I/O to the next, so every action below is one such run.            *)
(***************************************************************************)
EXTENDS Integers, Sequences, FiniteSets, TLC

NULL == "null"

\* a missing (undefined / null) string; strings are sequences of characters
Undef == <<"undefined">>

\* the value null, where a function returns it as such
Null == <<"null">>

(***************************************************************************)
(* Bounds of the model.                                                    *)
(***************************************************************************)
\* longest token handed to maskToken in SpecMask
MaxTokLen == 29
\* number of character patterns tokens are generated from in SpecMask
MaxSeed == 2

(***************************************************************************)
(* String helpers (String.prototype.toLowerCase / includes / slice).       *)
(***************************************************************************)
UpperCase ==
  <<"A","B","C","D","E","F","G","H","I","J","K","L","M",
    "N","O","P","Q","R","S","T","U","V","W","X","Y","Z">>

LowerCase ==
  <<"a","b","c","d","e","f","g","h","i","j","k","l","m",
    "n","o","p","q","r","s","t","u","v","w","x","y","z">>

LowerChar(c) ==
  IF \E i \in 1..26 : UpperCase[i] = c
  THEN LowerCase[CHOOSE i \in 1..26 : UpperCase[i] = c]
  ELSE c

toLowerCase(s) == [i \in 1..Len(s) |-> LowerChar(s[i])]

includes(s, p) ==
  \E i \in 0..(Len(s) - Len(p)) : SubSeq(s, i + 1, i + Len(p)) = p

\* String.prototype.repeat: n copies of str, one after the other
Repeat(str, n) == [i \in 1..(n * Len(str)) |-> str[((i - 1) % Len(str)) + 1]]

Min(a, b) == IF a < b THEN a ELSE b

(***************************************************************************)
(* popup.js : maskToken                                                    *)
(***************************************************************************)
\* the mask glyph of popup.js:33 and popup.js:38: the file spells it with the
\* three characters U+201A U+00C4 U+00A2, each named here by its code point
MaskGlyph == <<"U+201A", "U+00C4", "U+00A2">>

visibleStart == 4

visibleEnd == 4

MaskThreshold == 12

MaskCap == 20

\* popup.js:33 : the literal returned for short or missing tokens
Placeholder == Repeat(MaskGlyph, 12)

\* mutant: the tail slice keeps one character too few (token.slice(-3))
maskTokenShortTail(token) ==
  IF token = Undef \/ Len(token) < MaskThreshold
  THEN Placeholder
  ELSE SubSeq(token, 1, visibleStart)
       \o Repeat(MaskGlyph, Min(MaskCap, Len(token) - visibleStart - visibleEnd))
       \o SubSeq(token, Len(token) - 2, Len(token))

\* mutant: the width of the masked middle is not capped
maskTokenNoCap(token) ==
  IF token = Undef \/ Len(token) < MaskThreshold
  THEN Placeholder
  ELSE SubSeq(token, 1, visibleStart)
       \o Repeat(MaskGlyph, Len(token) - visibleStart - visibleEnd)
       \o SubSeq(token, Len(token) - visibleEnd + 1, Len(token))

maskToken(token) ==
  IF token = Undef \/ Len(token) < MaskThreshold
  THEN Placeholder
  ELSE SubSeq(token, 1, visibleStart)
       \o Repeat(MaskGlyph, Min(MaskCap, Len(token) - visibleStart - visibleEnd))
       \o SubSeq(token, Len(token) - visibleEnd + 1, Len(token))

(***************************************************************************)
(* Inputs of SpecMask: tokens of every length 0..MaxTokLen over an         *)
(* alphabet of header-safe characters, and the missing token.              *)
(***************************************************************************)
TokenAlphabet == <<"a","B","c","9","_","x","Z">>

GenToken(n, s) ==
  [i \in 1..n |-> TokenAlphabet[((i * s + s) % Len(TokenAlphabet)) + 1]]

MaskInputs ==
  {Undef} \cup {GenToken(n, s) : n \in 0..MaxTokLen, s \in 1..MaxSeed}

NotMasked == <<"pending">>

(***************************************************************************)
(* background.js : settings                                                *)
(***************************************************************************)
\* the header name a user may configure for tokenType 'custom'
XApiKey == <<"x","-","a","p","i","-","k","e","y">>

DEFAULT_SETTINGS ==
  [tokenType |-> "bearer", customHeaderName |-> <<>>, tokenSource |-> "headers",
   maxTokens |-> 5, autoCleanup |-> TRUE]

\* settings objects the settings page sends with SAVE_SETTINGS
SettingsChoices ==
  { [DEFAULT_SETTINGS EXCEPT !.maxTokens = 1],
    [DEFAULT_SETTINGS EXCEPT !.tokenSource = "storage", !.maxTokens = 2,
                             !.autoCleanup = FALSE],
    [DEFAULT_SETTINGS EXCEPT !.tokenType = "session", !.tokenSource = "cookies",
                             !.maxTokens = 2] }

(***************************************************************************)
(* The browser around the worker: tabs, their requests, storage, cookies.  *)
(***************************************************************************)
Tabs == {1, 2}

NoTab == 0

U1 == <<"u","1">>

U2 == <<"u","2">>

TabUrl(t) == IF t = 1 THEN U1 ELSE U2

TokA == <<"a","a","a","a","1","2","3","4","5","6","7","z","z","z","z">>

TokB == <<"b","b","b","b","1","2","+","/","5","6","=","y","y","y","y">>

TokC == <<"c","c","c","c","1","2","3","4","5","6","7","w","w","w","w">>

Authorization == <<"A","u","t","h","o","r","i","z","a","t","i","o","n">>

BearerSp == <<"B","e","a","r","e","r"," ">>

XSessionToken == <<"X","-","S","e","s","s","i","o","n","-","T","o","k","e","n">>

Accept == <<"A","c","c","e","p","t">>

Hdr(n, v) == [name |-> n, value |-> v]

\* requests the pages in the two tabs send (details of onBeforeSendHeaders)
Requests ==
  { [tabId |-> 1, url |-> U1, requestHeaders |-> <<Hdr(Accept, <<"*">>), Hdr(Authorization, BearerSp \o TokA)>>],
    [tabId |-> 1, url |-> U2, requestHeaders |-> <<Hdr(Authorization, BearerSp \o TokA)>>],
    [tabId |-> 1, url |-> U2, requestHeaders |-> <<Hdr(Authorization, BearerSp \o TokB)>>],
    [tabId |-> 2, url |-> U2, requestHeaders |-> <<Hdr(Authorization, BearerSp \o TokC)>>],
    [tabId |-> 1, url |-> U1, requestHeaders |-> <<Hdr(XSessionToken, <<>>)>>] }

(***************************************************************************)
(* background.js : extractTokenFromHeaders                                 *)
(***************************************************************************)
IsSpace(c) == c \in {" ", "\t"}

Bearer == <<"b","e","a","r","e","r">>

\* value.match(/^Bearer\s+(.+)$/i) : match[1], or Undef when there is no
\* match.  \s+ is greedy but gives back so that (.+) keeps one character.
BearerMatch(value) ==
  IF /\ Len(value) >= 8
     /\ toLowerCase(SubSeq(value, 1, 6)) = Bearer
     /\ IsSpace(value[7])
  THEN LET n == Len(value)
           \* last index of the leading run of whitespace after the prefix
           run == CHOOSE k \in 7..n :
                    /\ \A i \in 7..k : IsSpace(value[i])
                    /\ (k < n => ~IsSpace(value[k + 1]))
           start == IF run = n THEN n ELSE run + 1
       IN SubSeq(value, start, n)
  ELSE Undef

SessionHeaderNames ==
  { <<"x","-","s","e","s","s","i","o","n","-","t","o","k","e","n">>,
    <<"s","e","s","s","i","o","n","-","t","o","k","e","n">>,
    <<"x","-","s","e","s","s","i","o","n","-","i","d">> }

\* an exception thrown out of a function (TypeError on a missing property)
Thrown == <<"TypeError">>

\* mutant: a session header with an empty value is passed over
HeaderTokenTruthy(header, settings) ==
  IF header.name = Undef THEN <<Thrown>>
  ELSE
  LET name == toLowerCase(header.name)
      value == header.value
  IN CASE settings.tokenType = "bearer" ->
            IF name = toLowerCase(Authorization)
            THEN IF value = Undef THEN <<Thrown>>
                 ELSE IF BearerMatch(value) # Undef THEN <<BearerMatch(value)>>
                 ELSE <<>>
            ELSE <<>>
       [] settings.tokenType = "session" ->
            IF name \in SessionHeaderNames /\ value # Undef /\ value # <<>>
            THEN <<value>> ELSE <<>>
       [] settings.tokenType = "custom" ->
            IF /\ settings.customHeaderName # <<>>
               /\ name = toLowerCase(settings.customHeaderName)
            THEN <<value>> ELSE <<>>
       [] OTHER -> <<>>

\* mutant: a header whose name contains the configured name matches
HeaderTokenContains(header, settings) ==
  IF header.name = Undef THEN <<Thrown>>
  ELSE
  LET name == toLowerCase(header.name)
      value == header.value
  IN CASE settings.tokenType = "bearer" ->
            IF name = toLowerCase(Authorization)
            THEN IF value = Undef THEN <<Thrown>>
                 ELSE IF BearerMatch(value) # Undef THEN <<BearerMatch(value)>>
                 ELSE <<>>
            ELSE <<>>
       [] settings.tokenType = "session" ->
            IF name \in SessionHeaderNames THEN <<value>> ELSE <<>>
       [] settings.tokenType = "custom" ->
            IF /\ settings.customHeaderName # <<>>
               /\ includes(name, toLowerCase(settings.customHeaderName))
            THEN <<value>> ELSE <<>>
       [] OTHER -> <<>>

\* one iteration of the for loop: <<v>> when the switch returns v, <<>> when
\* the loop goes on to the next header, <<Thrown>> when the iteration throws
\* (header.name.toLowerCase() or value.match() on a missing property)
HeaderToken(header, settings) ==
  IF header.name = Undef THEN <<Thrown>>
  ELSE
  LET name == toLowerCase(header.name)
      value == header.value
  IN CASE settings.tokenType = "bearer" ->
            IF name = toLowerCase(Authorization)
            THEN IF value = Undef THEN <<Thrown>>
                 ELSE IF BearerMatch(value) # Undef THEN <<BearerMatch(value)>>
                 ELSE <<>>
            ELSE <<>>
       [] settings.tokenType = "session" ->
            IF name \in SessionHeaderNames THEN <<value>> ELSE <<>>
       [] settings.tokenType = "custom" ->
            IF /\ settings.customHeaderName # <<>>
               /\ name = toLowerCase(settings.customHeaderName)
            THEN <<value>> ELSE <<>>
       [] OTHER -> <<>>

RECURSIVE extractTokenFromHeaders(_, _)
extractTokenFromHeaders(headers, settings) ==
  IF headers = <<>> THEN Null
  ELSE LET r == HeaderToken(Head(headers), settings)
       IN IF r # <<>> THEN r[1]
          ELSE extractTokenFromHeaders(Tail(headers), settings)

\* mutant: only null and undefined count as no token
FalsyNullish(token) == token = Undef \/ token = Null

\* !token
Falsy(token) == token = Undef \/ token = Null \/ token = <<>>

(***************************************************************************)
(* background.js : addToken (the part that runs before its first await)    *)
(***************************************************************************)
has(dt, token) == \E i \in 1..Len(dt) : dt[i].token = token

\* mutant: Map.set on a key already present replaces its value
addTokenNoDedup(dt, token, url, maxTokens, now) ==
  IF has(dt, token)
  THEN [i \in 1..Len(dt) |->
          IF dt[i].token = token
          THEN [token |-> token, url |-> url, timestamp |-> now] ELSE dt[i]]
  ELSE IF Len(dt) >= maxTokens THEN dt
  ELSE Append(dt, [token |-> token, url |-> url, timestamp |-> now])

\* mutant: at capacity the oldest entry makes room for the new one
addTokenEvict(dt, token, url, maxTokens, now) ==
  IF has(dt, token) THEN dt
  ELSE IF Len(dt) >= maxTokens /\ dt # <<>>
       THEN Append(Tail(dt), [token |-> token, url |-> url, timestamp |-> now])
  ELSE Append(dt, [token |-> token, url |-> url, timestamp |-> now])

\* mutant: the capacity check lets one entry too many in
addTokenOffByOne(dt, token, url, maxTokens, now) ==
  IF has(dt, token) THEN dt
  ELSE IF Len(dt) > maxTokens THEN dt
  ELSE Append(dt, [token |-> token, url |-> url, timestamp |-> now])

\* mutant: no capacity check
addTokenNoCapacity(dt, token, url, maxTokens, now) ==
  IF has(dt, token) THEN dt
  ELSE Append(dt, [token |-> token, url |-> url, timestamp |-> now])

addToken(dt, token, url, maxTokens, now) ==
  IF has(dt, token) THEN dt
  ELSE IF Len(dt) >= maxTokens THEN dt
  ELSE Append(dt, [token |-> token, url |-> url, timestamp |-> now])


(***************************************************************************)
(* background.js : extractTokensFromStorage / extractTokensFromCookies     *)
(***************************************************************************)
K_token == <<"t","o","k","e","n">>

K_access_token == <<"a","c","c","e","s","s","_","t","o","k","e","n">>

K_accessToken == <<"a","c","c","e","s","s","T","o","k","e","n">>

K_auth_token == <<"a","u","t","h","_","t","o","k","e","n">>

K_authToken == <<"a","u","t","h","T","o","k","e","n">>

K_bearer == <<"b","e","a","r","e","r">>

K_jwt == <<"j","w","t">>

K_session == <<"s","e","s","s","i","o","n">>

K_sessionToken == <<"s","e","s","s","i","o","n","T","o","k","e","n">>

K_session_token == <<"s","e","s","s","i","o","n","_","t","o","k","e","n">>

K_sessionId == <<"s","e","s","s","i","o","n","I","d">>

K_session_id == <<"s","e","s","s","i","o","n","_","i","d">>

K_sessionid == <<"s","e","s","s","i","o","n","i","d">>

K_sid == <<"s","i","d">>

\* patterns[tokenType] || patterns.bearer of the injected function
StoragePatterns(tokenType, customHeaderName) ==
  CASE tokenType = "session" ->
         {K_session, K_sessionToken, K_session_token, K_sessionId, K_session_id}
    [] tokenType = "custom" ->
         IF customHeaderName # <<>> THEN {toLowerCase(customHeaderName)} ELSE {}
    [] OTHER ->
         {K_token, K_access_token, K_accessToken, K_auth_token, K_authToken, K_bearer}

\* mutant: cookies are searched with the keywords of the storage scan
CookiePatternsOfStorage(settings) ==
  StoragePatterns(settings.tokenType, settings.customHeaderName)

\* patterns[settings.tokenType] || patterns.bearer of extractTokensFromCookies
CookiePatterns(settings) ==
  CASE settings.tokenType = "session" ->
         {K_session, K_sessionid, K_session_id, K_sid}
    [] settings.tokenType = "custom" ->
         IF settings.customHeaderName # <<>>
         THEN {toLowerCase(settings.customHeaderName)} ELSE {}
    [] OTHER -> {K_token, K_access_token, K_auth_token, K_bearer, K_jwt}

\* the inner for loop over searchPatterns: some pattern is contained in the
\* lower-cased name (the loop breaks at the first one)
MatchesPattern(name, patterns) ==
  \E pat \in patterns : includes(toLowerCase(name), toLowerCase(pat))

MinValueLen == 10

\* mutant: a value of length 10 passes
PlausibleFromTen(value) == value # Undef /\ Len(value) >= MinValueLen

\* value && value.length > 10
Plausible(value) == value # Undef /\ Len(value) > MinValueLen

LocalStorageLabel == <<"l","o","c","a","l","S","t","o","r","a","g","e",":">>

SessionStorageLabel == <<"s","e","s","s","i","o","n","S","t","o","r","a","g","e",":">>

CookieLabel == <<"c","o","o","k","i","e",":">>

\* one of the two loops of the injected function over a Storage object
RECURSIVE ScanStore(_, _, _)
ScanStore(store, patterns, label) ==
  IF store = <<>> THEN <<>>
  ELSE LET kv == Head(store)
           rest == ScanStore(Tail(store), patterns, label)
       IN IF MatchesPattern(kv.key, patterns) /\ Plausible(kv.value)
          THEN <<[token |-> kv.value, url |-> label \o kv.key]>> \o rest
          ELSE rest

\* the function injected by executeScript: localStorage first, then
\* sessionStorage
StorageScanFunc(localStore, sessionStore, tokenType, customHeaderName) ==
  ScanStore(localStore, StoragePatterns(tokenType, customHeaderName), LocalStorageLabel)
  \o ScanStore(sessionStore, StoragePatterns(tokenType, customHeaderName), SessionStorageLabel)

RECURSIVE CookieScan(_, _)
CookieScan(cookies, settings) ==
  IF cookies = <<>> THEN <<>>
  ELSE LET c == Head(cookies)
           rest == CookieScan(Tail(cookies), settings)
       IN IF MatchesPattern(c.name, CookiePatterns(settings)) /\ Plausible(c.value)
          THEN <<[token |-> c.value, url |-> CookieLabel \o c.name]>> \o rest
          ELSE rest

\* what the pages of the two tabs keep in storage and cookies
KV(k, v) == [key |-> k, value |-> v]

Cookie(n, v) == [name |-> n, value |-> v]

LocalStorageOf(t) ==
  IF t = 1
  THEN <<KV(K_authToken, TokA), KV(<<"t","h","e","m","e">>, <<"d","a","r","k">>)>>
  ELSE <<KV(K_token, TokC)>>

SessionStorageOf(t) ==
  IF t = 1 THEN <<KV(K_access_token, TokB)>> ELSE <<>>

CookiesOf(url) ==
  IF url = U1
  THEN <<Cookie(<<"S","I","D">>, TokA), Cookie(<<"J","W","T">>, TokB)>>
  ELSE <<Cookie(K_sid, TokC)>>

\* extractTokensFromStorage(tabId, settings): executeScript rejects when
\* there is no such tab, and the catch turns that into []
extractTokensFromStorage(tabId, settings) ==
  IF tabId \notin Tabs THEN <<>>
  ELSE StorageScanFunc(LocalStorageOf(tabId), SessionStorageOf(tabId),
                       settings.tokenType, settings.customHeaderName)

extractTokensFromCookies(url, settings) == CookieScan(CookiesOf(url), settings)

(***************************************************************************)
(* popup.js : truncateUrl, encodeURIComponent, renderTokens                *)
(***************************************************************************)
DefaultMaxLength == 40

Ellipsis == <<".",".",".">>

truncateUrl(url, maxLength) ==
  IF Len(url) <= maxLength THEN url
  ELSE SubSeq(url, 1, maxLength - 3) \o Ellipsis

\* characters encodeURIComponent leaves alone
Unreserved ==
  {UpperCase[i] : i \in 1..26} \cup {LowerCase[i] : i \in 1..26}
  \cup {"0","1","2","3","4","5","6","7","8","9"}
  \cup {"-","_",".","!","~","*","'","(",")"}

\* the percent escape of the other characters that occur in this model
EncodeChar(c) ==
  CASE c \in Unreserved -> <<c>>
    [] c = " " -> <<"%","2","0">>
    [] c = ":" -> <<"%","3","A">>
    [] c = "/" -> <<"%","2","F">>
    [] c = "=" -> <<"%","3","D">>
    [] c = "+" -> <<"%","2","B">>
    [] OTHER -> <<"%","3","F">>

RECURSIVE encodeURIComponent(_)
encodeURIComponent(str) ==
  IF str = <<>> THEN <<>>
  ELSE EncodeChar(Head(str)) \o encodeURIComponent(Tail(str))

DecodeEscape(hex) ==
  CASE hex = <<"2","0">> -> " "
    [] hex = <<"3","A">> -> ":"
    [] hex = <<"2","F">> -> "/"
    [] hex = <<"3","D">> -> "="
    [] hex = <<"2","B">> -> "+"
    [] OTHER -> "?"

RECURSIVE decodeURIComponent(_)
decodeURIComponent(str) ==
  IF str = <<>> THEN <<>>
  ELSE IF Head(str) = "%" /\ Len(str) >= 3
       THEN <<DecodeEscape(SubSeq(str, 2, 3))>> \o decodeURIComponent(SubSeq(str, 4, Len(str)))
       ELSE <<Head(str)>> \o decodeURIComponent(Tail(str))

\* mutant: the card shows the token itself
CardUnmasked(item) ==
  [title |-> item.url,
   urlText |-> truncateUrl(item.url, DefaultMaxLength),
   code |-> item.token,
   dataToken |-> encodeURIComponent(item.token)]

\* one token card: the title attribute and text of .token-url, the text of
\* <code>, and the data-token attribute of the copy button
Card(item) ==
  [title |-> item.url,
   urlText |-> truncateUrl(item.url, DefaultMaxLength),
   code |-> maskToken(item.token),
   dataToken |-> encodeURIComponent(item.token)]

\* the page after renderTokens(tokens, maxTokens)
renderTokens(tokens, maxTokens) ==
  [count |-> Len(tokens), max |-> maxTokens,
   cards |-> [i \in 1..Len(tokens) |-> Card(tokens[i])]]

(***************************************************************************)
(* State                                                                   *)
(***************************************************************************)
\* events (requests, tab and window events, messages, clicks) in one run
MaxEvents == 3

\* browser windows open when the worker starts
MaxWindows == 2

VARIABLES
  \* background.js:30 : Map token -> {url, timestamp}, in insertion order
  detectedTokens,
  \* for each entry of detectedTokens: the tab it was read from, the
  \* settings its handler had read, and the handler kind that inserted it
  provenance,
  \* the new tokens addToken was handed while the map was full, since the
  \* last clear
  overflow,
  \* background.js:33
  activeTabId,
  \* chrome.storage.local key 'settings': <<>> when absent, else <<value>>
  storedSettings,
  \* chrome.storage.session key 'tokens': <<>> when absent, else <<list>>
  sessionTokens,
  \* chrome.storage.local / .session calls issued and not yet resumed from
  localQ,
  sessionQ,
  \* the handlers suspended at an await
  procs,
  \* events so far; also the clock read by Date.now()
  nEvents,
  \* TOKENS_UPDATED messages sent by notifyPopup
  notified,
  \* the tab that is active in the browser, and the open windows
  browserTab,
  windowsOpen,
  \* the last sendResponse of the onMessage listener
  lastResponse,
  \* popup: the rendered token list, and the clipboard
  page,
  clipboard,
  \* SpecMask: the two tokens shown on two cards, and their masked text
  maskIn,
  maskOut,
  \* SpecExtract, SpecScan: the arguments of the function applied, its result
  callIn,
  callOut,
  \* settings page: the text and class of #saveStatus
  saveStatus,
  \* the entries that were in the map or the mirror when a shutdown cleanup
  \* emptied the map, once that cleanup's storage.session.clear() took effect
  wiped,
  \* the exceptions raised inside handlers so far: the handler, what failed,
  \* the entry the handler had inserted, and whether a catch block took it
  faults

maskVars == <<maskIn, maskOut, callIn, callOut>>

workerVars == <<detectedTokens, provenance, overflow, activeTabId>>

storeVars == <<storedSettings, sessionTokens>>

popupVars == <<page, clipboard, saveStatus>>

envVars == <<browserTab, windowsOpen>>

vars ==
  <<detectedTokens, provenance, overflow, activeTabId, storedSettings, sessionTokens,
    localQ, sessionQ, procs, nEvents, notified, browserTab, windowsOpen,
    lastResponse, page, clipboard, maskIn, maskOut, callIn, callOut, saveStatus,
    wiped, faults>>

(***************************************************************************)
(* Suspended handlers and the storage calls they wait for                  *)
(*                                                                         *)
(* Each storage area carries out its calls in the order they were issued;  *)
(* the step that resumes a handler from `await chrome.storage...` is the   *)
(* step at which its call takes effect.  A handler at pc "loop" is running *)
(* (its awaits there resolve in the microtask queue), so nothing else runs *)
(* until it reaches an await on I/O or ends.                               *)
(***************************************************************************)
NewProc(kind, pc) ==
  [id |-> nEvents + 1, kind |-> kind, pc |-> pc, settings |-> <<>>,
   details |-> <<>>, tab |-> NoTab, items |-> <<>>, snapshot |-> <<>>,
   superseded |-> FALSE]

WorkerIdle == \A p \in procs : p.pc # "loop"

\* p is the handler whose call is the oldest of queue q: it resumes next
ResumesFrom(q, p, pc) ==
  /\ WorkerIdle
  /\ p.pc = pc
  /\ q # <<>>
  /\ Head(q) = p.id

\* p resumes from an await on the browser (tabs, scripting, cookies, windows)
Resumes(p, kind, pc) ==
  /\ WorkerIdle
  /\ p.kind = kind
  /\ p.pc = pc

\* getSettings(): { ...DEFAULT_SETTINGS, ...result.settings }
getSettings(stored) == IF stored = <<>> THEN DEFAULT_SETTINGS ELSE stored[1]

\* the list persistTokens, GET_TOKENS and SCAN_STORAGE build from the map
tokenList(dt) == dt

Response(type, tokens) == [type |-> type, tokens |-> tokens]

NoResponse == Response("none", <<>>)

NoPage == [count |-> 0, max |-> 0, cards |-> <<>>]

\* no function has been applied yet
NotCalled == [done |-> FALSE, result |-> <<>>]

NoStatus == [text |-> "", type |-> ""]

MaskIdle ==
  /\ maskIn = <<Undef, Undef>>
  /\ maskOut = <<NotMasked, NotMasked>>
  /\ callIn = <<>>
  /\ callOut = NotCalled

\* the state once the top level of background.js has run: updateActiveTab()
\* (line 245) is suspended at its tabs.query
Init ==
  /\ detectedTokens = <<>>
  /\ provenance = <<>>
  /\ overflow = {}
  /\ activeTabId = NoTab
  /\ storedSettings = <<>>
  /\ sessionTokens = <<>>
  /\ localQ = <<>>
  /\ sessionQ = <<>>
  /\ procs = {[id |-> 0, kind |-> "updateActiveTab", pc |-> "query",
               settings |-> <<>>, details |-> <<>>, tab |-> NoTab, items |-> <<>>,
               snapshot |-> <<>>, superseded |-> FALSE]}
  /\ nEvents = 0
  /\ notified = 0
  /\ browserTab = 1
  /\ windowsOpen = MaxWindows
  /\ lastResponse = NoResponse
  /\ page = NoPage
  /\ clipboard = Undef
  /\ saveStatus = NoStatus
  /\ wiped = {}
  /\ faults = {}
  /\ MaskIdle

\* an exception raised while handler p ran; caught tells whether a catch
\* block of the code took it, otherwise the handler's promise rejected
Fault(p, what, entry, caught) ==
  [id |-> p.id, kind |-> p.kind, what |-> what, entry |-> entry, caught |-> caught]

\* an event is delivered to the worker
CanHappen == nEvents < MaxEvents /\ WorkerIdle

BrowserOpen == windowsOpen > 0

\* handler p goes on to its next await / ends
Goto(p, q) == procs' = (procs \ {p}) \cup {q}

End(p) == procs' = procs \ {p}

\* a scan that has started its fetch and has not answered yet
ScanInFlight(p) ==
  p.kind = "scan" /\ p.pc \in {"executeScript", "query", "cookiesGetAll", "persist"}

\* the scans in flight at a reset are superseded by it
Supersede(ps) ==
  {IF ScanInFlight(q) THEN [q EXCEPT !.superseded = TRUE] ELSE q : q \in ps}

\* detectedTokens.clear()
Clear ==
  /\ detectedTokens' = <<>>
  /\ provenance' = <<>>
  /\ overflow' = {}

\* addToken(token, url, maxTokens) up to its await, called by a handler that
\* read `settings` and took the token from tab `tab`
Ingest(token, url, settings, tab, via, superseded) ==
  LET dt == addToken(detectedTokens, token, url, settings.maxTokens, nEvents)
  IN /\ detectedTokens' = dt
     /\ provenance' =
          IF has(detectedTokens, token)
          THEN [i \in 1..Len(provenance) |->
                  IF detectedTokens[i].token = token
                  THEN [provenance[i] EXCEPT !.sources = Append(@, url)]
                  ELSE provenance[i]]
          ELSE IF Len(dt) > Len(detectedTokens)
               THEN Append(provenance,
                           [tab |-> tab, settings |-> settings, via |-> via,
                            superseded |-> superseded, sources |-> <<url>>,
                            at |-> nEvents])
               ELSE provenance
     /\ overflow' =
          IF ~has(detectedTokens, token) /\ Len(detectedTokens) >= settings.maxTokens
          THEN overflow \cup {token} ELSE overflow

\* addToken got past its two checks and is at `await persistTokens()`
ReachedPersist == detectedTokens' # detectedTokens

(***************************************************************************)
(* background.js : handleWebRequest                                        *)
(***************************************************************************)
\* lines 175-181: the active-tab check and the call of getSettings
HandleWebRequest(details) ==
  /\ CanHappen /\ BrowserOpen
  /\ nEvents' = nEvents + 1
  /\ IF details.tabId # activeTabId
     THEN UNCHANGED <<procs, localQ>>
     ELSE /\ procs' = procs \cup
               {[NewProc("webRequest", "getSettings") EXCEPT !.details = <<details>>]}
          /\ localQ' = Append(localQ, nEvents + 1)
  /\ UNCHANGED <<workerVars, storeVars, sessionQ, notified, envVars, lastResponse,
                 popupVars, maskVars, wiped, faults>>

\* lines 181-197 and addToken lines 118-136
WebRequestGotSettings(p) ==
  /\ p.kind = "webRequest"
  /\ ResumesFrom(localQ, p, "getSettings")
  /\ localQ' = Tail(localQ)
  /\ LET settings == getSettings(storedSettings)
         details == p.details[1]
         token == extractTokenFromHeaders(details.requestHeaders, settings)
     IN IF settings.tokenSource # "headers"
        THEN /\ End(p)
             /\ UNCHANGED <<workerVars, sessionQ, faults>>
        ELSE IF token = Thrown
        THEN \* no try block around line 189: the handler's promise rejects
             /\ End(p)
             /\ faults' = faults \cup {Fault(p, "extractTokenFromHeaders", <<>>, FALSE)}
             /\ UNCHANGED <<workerVars, sessionQ>>
        ELSE IF Falsy(token)
        THEN /\ End(p)
             /\ UNCHANGED <<workerVars, sessionQ, faults>>
        ELSE /\ Ingest(token, details.url, settings, details.tabId, "webRequest", FALSE)
             /\ UNCHANGED <<activeTabId, faults>>
             /\ IF ReachedPersist
                THEN /\ sessionQ' = Append(sessionQ, p.id)
                     /\ Goto(p, [p EXCEPT !.pc = "persist", !.settings = <<settings>>,
                                          !.snapshot = tokenList(detectedTokens')])
                ELSE /\ End(p)
                     /\ UNCHANGED sessionQ
  /\ UNCHANGED <<storeVars, nEvents, notified, envVars, lastResponse, popupVars,
                 maskVars, wiped>>

\* mutant: addToken returns after persistTokens without notifyPopup
WebRequestPersistedSilent(p) ==
  /\ p.kind = "webRequest"
  /\ ResumesFrom(sessionQ, p, "persist")
  /\ sessionQ' = Tail(sessionQ)
  /\ sessionTokens' = <<p.snapshot>>
  /\ End(p)
  /\ UNCHANGED <<workerVars, storedSettings, localQ, nEvents, notified, envVars,
                 lastResponse, popupVars, maskVars, wiped, faults>>

\* persistTokens line 155 takes effect; addToken line 139: notifyPopup
WebRequestPersisted(p) ==
  /\ p.kind = "webRequest"
  /\ ResumesFrom(sessionQ, p, "persist")
  /\ sessionQ' = Tail(sessionQ)
  /\ sessionTokens' = <<p.snapshot>>
  /\ notified' = notified + 1
  /\ End(p)
  /\ UNCHANGED <<workerVars, storedSettings, localQ, nEvents, envVars, lastResponse,
                 popupVars, maskVars, wiped, faults>>

(***************************************************************************)
(* background.js : active tab tracking                                     *)
(***************************************************************************)
\* detectedTokens.clear() followed by the call of persistTokens
ClearAndPersist(id) ==
  /\ Clear
  /\ sessionQ' = Append(sessionQ, id)

\* updateActiveTab line 209: tabs.query answers with the active tab
UpdateActiveTabQuery(p) ==
  /\ Resumes(p, "updateActiveTab", "query")
  /\ Goto(p, [p EXCEPT !.pc = "queried",
                       !.tab = IF BrowserOpen THEN browserTab ELSE NoTab])
  /\ UNCHANGED <<workerVars, storeVars, localQ, sessionQ, nEvents, notified,
                 envVars, lastResponse, popupVars, maskVars, wiped, faults>>

\* updateActiveTab lines 211-216
UpdateActiveTabQueried(p) ==
  /\ Resumes(p, "updateActiveTab", "queried")
  /\ IF p.tab # NoTab /\ p.tab # activeTabId
     THEN /\ activeTabId' = p.tab
          /\ ClearAndPersist(p.id)
          /\ procs' = Supersede((procs \ {p}) \cup {[p EXCEPT !.pc = "persist"]})
     ELSE /\ End(p)
          /\ UNCHANGED <<workerVars, sessionQ>>
  /\ UNCHANGED <<storeVars, localQ, nEvents, notified, envVars, lastResponse,
                 popupVars, maskVars, wiped, faults>>

\* mutant: the listener resets only when the tab id changes
TabsOnActivatedIfChanged(tabId) ==
  /\ CanHappen /\ BrowserOpen
  /\ nEvents' = nEvents + 1
  /\ browserTab' = tabId
  /\ activeTabId' = tabId
  /\ sessionQ' = Append(sessionQ, nEvents + 1)
  /\ IF tabId # activeTabId THEN Clear
     ELSE UNCHANGED <<detectedTokens, provenance, overflow>>
  /\ procs' = Supersede(procs) \cup
       {[NewProc("onActivated", "persist") EXCEPT !.snapshot = tokenList(detectedTokens')]}
  /\ UNCHANGED <<storeVars, localQ, notified, windowsOpen, lastResponse,
                 popupVars, maskVars, wiped, faults>>

\* tabs.onActivated listener, lines 225-230
TabsOnActivated(tabId) ==
  /\ CanHappen /\ BrowserOpen
  /\ nEvents' = nEvents + 1
  /\ browserTab' = tabId
  /\ activeTabId' = tabId
  /\ ClearAndPersist(nEvents + 1)
  /\ procs' = Supersede(procs) \cup {NewProc("onActivated", "persist")}
  /\ UNCHANGED <<storeVars, localQ, notified, windowsOpen, lastResponse,
                 popupVars, maskVars, wiped, faults>>

\* mutant: any update of the active tab resets, whatever its status
TabsOnUpdatedAnyStatus(tabId, status) ==
  /\ CanHappen /\ BrowserOpen
  /\ nEvents' = nEvents + 1
  /\ IF tabId = activeTabId
     THEN /\ ClearAndPersist(nEvents + 1)
          /\ procs' = Supersede(procs) \cup {NewProc("onUpdated", "persist")}
          /\ UNCHANGED activeTabId
     ELSE UNCHANGED <<workerVars, sessionQ, procs>>
  /\ UNCHANGED <<storeVars, localQ, notified, envVars, lastResponse, popupVars,
                 maskVars, wiped, faults>>

\* tabs.onUpdated listener, lines 235-239
TabsOnUpdated(tabId, status) ==
  /\ CanHappen /\ BrowserOpen
  /\ nEvents' = nEvents + 1
  /\ IF tabId = activeTabId /\ status = "loading"
     THEN /\ ClearAndPersist(nEvents + 1)
          /\ procs' = Supersede(procs) \cup {NewProc("onUpdated", "persist")}
          /\ UNCHANGED activeTabId
     ELSE UNCHANGED <<workerVars, sessionQ, procs>>
  /\ UNCHANGED <<storeVars, localQ, notified, envVars, lastResponse, popupVars,
                 maskVars, wiped, faults>>

\* mutant: a reset notifies without writing the emptied list to the mirror
ResetPersistedNoWrite(p) ==
  /\ p.kind \in {"updateActiveTab", "onActivated", "onUpdated"}
  /\ ResumesFrom(sessionQ, p, "persist")
  /\ sessionQ' = Tail(sessionQ)
  /\ notified' = notified + 1
  /\ End(p)
  /\ UNCHANGED <<workerVars, storeVars, localQ, nEvents, envVars, lastResponse,
                 popupVars, maskVars, wiped, faults>>

\* persistTokens takes effect; lines 217, 231 and 240: notifyPopup
ResetPersisted(p) ==
  /\ p.kind \in {"updateActiveTab", "onActivated", "onUpdated"}
  /\ ResumesFrom(sessionQ, p, "persist")
  /\ sessionQ' = Tail(sessionQ)
  /\ sessionTokens' = <<p.snapshot>>
  /\ notified' = notified + 1
  /\ End(p)
  /\ UNCHANGED <<workerVars, storedSettings, localQ, nEvents, envVars, lastResponse,
                 popupVars, maskVars, wiped, faults>>

(***************************************************************************)
(* background.js : onMessage listener                                      *)
(***************************************************************************)
\* mutant: GET_TOKENS answers with the list of the session mirror
GetTokensFromMirror ==
  /\ CanHappen /\ BrowserOpen
  /\ nEvents' = nEvents + 1
  /\ lastResponse' = Response("GET_TOKENS",
                              IF sessionTokens = <<>> THEN <<>> ELSE sessionTokens[1])
  /\ UNCHANGED <<workerVars, storeVars, localQ, sessionQ, procs, notified, envVars,
                 popupVars, maskVars, wiped, faults>>

\* case 'GET_TOKENS', lines 383-393
GetTokens ==
  /\ CanHappen /\ BrowserOpen
  /\ nEvents' = nEvents + 1
  /\ lastResponse' = Response("GET_TOKENS", tokenList(detectedTokens))
  /\ UNCHANGED <<workerVars, storeVars, localQ, sessionQ, procs, notified, envVars,
                 popupVars, maskVars, wiped, faults>>

\* case 'SCAN_STORAGE', line 398
ScanStorage ==
  /\ CanHappen /\ BrowserOpen
  /\ nEvents' = nEvents + 1
  /\ procs' = procs \cup {NewProc("scan", "getSettings")}
  /\ localQ' = Append(localQ, nEvents + 1)
  /\ UNCHANGED <<workerVars, storeVars, sessionQ, notified, envVars, lastResponse,
                 popupVars, maskVars, wiped, faults>>

\* mutant: any source other than 'cookies' starts the storage fetch
ScanGotSettingsAnySource(p) ==
  /\ p.kind = "scan"
  /\ ResumesFrom(localQ, p, "getSettings")
  /\ localQ' = Tail(localQ)
  /\ LET settings == getSettings(storedSettings)
         q == [p EXCEPT !.settings = <<settings>>]
     IN IF settings.tokenSource = "cookies"
        THEN Goto(p, [q EXCEPT !.pc = "query"])
        ELSE Goto(p, [q EXCEPT !.pc = "executeScript", !.tab = activeTabId])
  /\ UNCHANGED <<workerVars, storeVars, sessionQ, nEvents, notified, envVars,
                 lastResponse, popupVars, maskVars, wiped, faults>>

\* lines 398-408: the source decides which fetch is started
ScanGotSettings(p) ==
  /\ p.kind = "scan"
  /\ ResumesFrom(localQ, p, "getSettings")
  /\ localQ' = Tail(localQ)
  /\ LET settings == getSettings(storedSettings)
         q == [p EXCEPT !.settings = <<settings>>]
     IN CASE settings.tokenSource = "storage" ->
               Goto(p, [q EXCEPT !.pc = "executeScript", !.tab = activeTabId])
          [] settings.tokenSource = "cookies" ->
               Goto(p, [q EXCEPT !.pc = "query"])
          [] OTHER ->
               Goto(p, [q EXCEPT !.pc = "loop"])
  /\ UNCHANGED <<workerVars, storeVars, sessionQ, nEvents, notified, envVars,
                 lastResponse, popupVars, maskVars, wiped, faults>>

\* line 402 resumed: extractTokensFromStorage has resolved
ScanStorageFetched(p) ==
  /\ Resumes(p, "scan", "executeScript")
  /\ Goto(p, [p EXCEPT !.pc = "loop",
                       !.items = extractTokensFromStorage(p.tab, p.settings[1])])
  /\ faults' = IF p.tab \in Tabs THEN faults
               ELSE faults \cup {Fault(p, "extractTokensFromStorage", <<>>, TRUE)}
  /\ UNCHANGED <<workerVars, storeVars, localQ, sessionQ, nEvents, notified,
                 envVars, lastResponse, popupVars, maskVars, wiped>>

\* lines 404-406: tabs.query answers; cookies.getAll is called for tab.url
ScanQueried(p) ==
  /\ Resumes(p, "scan", "query")
  /\ IF BrowserOpen
     THEN Goto(p, [p EXCEPT !.pc = "cookiesGetAll", !.tab = browserTab])
     ELSE Goto(p, [p EXCEPT !.pc = "loop"])
  /\ UNCHANGED <<workerVars, storeVars, localQ, sessionQ, nEvents, notified,
                 envVars, lastResponse, popupVars, maskVars, wiped, faults>>

\* line 406 resumed: extractTokensFromCookies has resolved
ScanCookiesFetched(p) ==
  /\ Resumes(p, "scan", "cookiesGetAll")
  /\ Goto(p, [p EXCEPT !.pc = "loop",
                       !.items = extractTokensFromCookies(TabUrl(p.tab), p.settings[1])])
  /\ UNCHANGED <<workerVars, storeVars, localQ, sessionQ, nEvents, notified,
                 envVars, lastResponse, popupVars, maskVars, wiped, faults>>

\* lines 411-413: one iteration of the loop, addToken up to its await
ScanAddToken(p) ==
  /\ p.kind = "scan" /\ p.pc = "loop"
  /\ p.items # <<>>
  /\ Ingest(Head(p.items).token, Head(p.items).url, p.settings[1], p.tab, "scan",
            p.superseded)
  /\ IF ReachedPersist
     THEN /\ sessionQ' = Append(sessionQ, p.id)
          /\ Goto(p, [p EXCEPT !.pc = "persist", !.items = Tail(p.items),
                               !.snapshot = tokenList(detectedTokens')])
     ELSE /\ Goto(p, [p EXCEPT !.items = Tail(p.items)])
          /\ UNCHANGED sessionQ
  /\ UNCHANGED <<activeTabId, storeVars, localQ, nEvents, notified, envVars,
                 lastResponse, popupVars, maskVars, wiped, faults>>

\* inside the loop: persistTokens takes effect and addToken line 139 notifies
ScanPersisted(p) ==
  /\ p.kind = "scan"
  /\ ResumesFrom(sessionQ, p, "persist")
  /\ sessionQ' = Tail(sessionQ)
  /\ sessionTokens' = <<p.snapshot>>
  /\ notified' = notified + 1
  /\ Goto(p, [p EXCEPT !.pc = "loop"])
  /\ UNCHANGED <<workerVars, storedSettings, localQ, nEvents, envVars, lastResponse,
                 popupVars, maskVars, wiped, faults>>

\* mutant: the answer is sent while candidates are still waiting in the loop
ScanRespondEarly(p) ==
  /\ p.kind = "scan" /\ p.pc = "loop"
  /\ lastResponse' = Response("SCAN_STORAGE", tokenList(detectedTokens))
  /\ End(p)
  /\ UNCHANGED <<workerVars, storeVars, localQ, sessionQ, nEvents, notified,
                 envVars, popupVars, maskVars, wiped, faults>>

\* lines 415-424: the loop is over, the updated list is sent
ScanRespond(p) ==
  /\ p.kind = "scan" /\ p.pc = "loop"
  /\ p.items = <<>>
  /\ lastResponse' = Response("SCAN_STORAGE", tokenList(detectedTokens))
  /\ End(p)
  /\ UNCHANGED <<workerVars, storeVars, localQ, sessionQ, nEvents, notified,
                 envVars, popupVars, maskVars, wiped, faults>>

\* mutant: the manual clear is honoured only when autoCleanup is set
ClearDataIfAutoCleanup ==
  /\ CanHappen
  /\ nEvents' = nEvents + 1
  /\ IF getSettings(storedSettings).autoCleanup THEN Clear
     ELSE UNCHANGED <<detectedTokens, provenance, overflow>>
  /\ sessionQ' = Append(sessionQ, nEvents + 1)
  /\ procs' = Supersede(procs) \cup {NewProc("clearData", "sessionClear")}
  /\ UNCHANGED <<activeTabId, storeVars, localQ, notified, envVars, lastResponse,
                 popupVars, maskVars, wiped, faults>>

\* case 'CLEAR_DATA', lines 429-430
ClearData ==
  /\ CanHappen
  /\ nEvents' = nEvents + 1
  /\ Clear
  /\ sessionQ' = Append(sessionQ, nEvents + 1)
  /\ procs' = Supersede(procs) \cup {NewProc("clearData", "sessionClear")}
  /\ UNCHANGED <<activeTabId, storeVars, localQ, notified, envVars, lastResponse,
                 popupVars, maskVars, wiped, faults>>

\* storage.session.clear() takes effect; line 431: persistTokens writes the
\* map as it is by now
ClearDataCleared(p) ==
  /\ p.kind = "clearData"
  /\ ResumesFrom(sessionQ, p, "sessionClear")
  /\ sessionTokens' = <<>>
  /\ sessionQ' = Append(Tail(sessionQ), p.id)
  /\ Goto(p, [p EXCEPT !.pc = "persist", !.snapshot = tokenList(detectedTokens)])
  /\ UNCHANGED <<workerVars, storedSettings, localQ, nEvents, notified, envVars,
                 lastResponse, popupVars, maskVars, wiped, faults>>

\* case 'SAVE_SETTINGS', line 441
SaveSettings(settings) ==
  /\ CanHappen
  /\ nEvents' = nEvents + 1
  /\ localQ' = Append(localQ, nEvents + 1)
  /\ procs' = procs \cup {[NewProc("saveSettings", "save") EXCEPT !.settings = <<settings>>]}
  /\ UNCHANGED <<workerVars, storeVars, sessionQ, notified, envVars, lastResponse,
                 popupVars, maskVars, wiped, faults>>

\* saveSettings line 56 takes effect; lines 443-444
SaveSettingsSaved(p) ==
  /\ p.kind = "saveSettings"
  /\ ResumesFrom(localQ, p, "save")
  /\ localQ' = Tail(localQ)
  /\ storedSettings' = p.settings
  /\ ClearAndPersist(p.id)
  /\ procs' = Supersede((procs \ {p}) \cup {[p EXCEPT !.pc = "persist"]})
  /\ UNCHANGED <<activeTabId, sessionTokens, nEvents, notified, envVars,
                 lastResponse, popupVars, maskVars, wiped, faults>>

\* the sender of a message, when it is the settings page
SettingsPage == "settings.html"

\* settings.js line 153: showSaveStatus after SAVE_SETTINGS was answered
SettingsSaved == [text |-> "Settings saved!", type |-> "success"]

\* persistTokens takes effect; lines 432 and 445: sendResponse, and the
\* settings page, when it sent the message, shows the answer
CommandPersisted(p) ==
  /\ p.kind \in {"clearData", "saveSettings"}
  /\ ResumesFrom(sessionQ, p, "persist")
  /\ sessionQ' = Tail(sessionQ)
  /\ sessionTokens' = <<p.snapshot>>
  /\ lastResponse' = Response(IF p.kind = "clearData" THEN "CLEAR_DATA"
                              ELSE "SAVE_SETTINGS", <<>>)
  /\ saveStatus' = IF p.details = <<SettingsPage>> THEN SettingsSaved ELSE saveStatus
  /\ End(p)
  /\ UNCHANGED <<workerVars, storedSettings, localQ, nEvents, notified, envVars,
                 page, clipboard, maskVars, wiped, faults>>

(***************************************************************************)
(* background.js : windows.onRemoved listener                              *)
(***************************************************************************)
\* a window closes and the listener calls windows.getAll (line 472)
WindowsOnRemoved ==
  /\ CanHappen /\ BrowserOpen
  /\ nEvents' = nEvents + 1
  /\ windowsOpen' = windowsOpen - 1
  /\ procs' = procs \cup {NewProc("onRemoved", "getAll")}
  /\ UNCHANGED <<workerVars, storeVars, localQ, sessionQ, notified, browserTab,
                 lastResponse, popupVars, maskVars, wiped, faults>>

\* mutant: the cleanup goes on whether or not a window remains
OnRemovedAnyWindow(p) ==
  /\ Resumes(p, "onRemoved", "getAll")
  /\ localQ' = Append(localQ, p.id)
  /\ Goto(p, [p EXCEPT !.pc = "getSettings"])
  /\ UNCHANGED <<workerVars, storeVars, sessionQ, nEvents, notified, envVars,
                 lastResponse, popupVars, maskVars, wiped, faults>>

\* lines 472-476
OnRemovedGotWindows(p) ==
  /\ Resumes(p, "onRemoved", "getAll")
  /\ IF windowsOpen = 0
     THEN /\ localQ' = Append(localQ, p.id)
          /\ Goto(p, [p EXCEPT !.pc = "getSettings"])
     ELSE /\ End(p)
          /\ UNCHANGED localQ
  /\ UNCHANGED <<workerVars, storeVars, sessionQ, nEvents, notified, envVars,
                 lastResponse, popupVars, maskVars, wiped, faults>>

\* the list under the key 'tokens' of chrome.storage.session
Mirror == IF sessionTokens = <<>> THEN <<>> ELSE sessionTokens[1]

\* lines 476-480
OnRemovedGotSettings(p) ==
  /\ p.kind = "onRemoved"
  /\ ResumesFrom(localQ, p, "getSettings")
  /\ localQ' = Tail(localQ)
  /\ IF getSettings(storedSettings).autoCleanup
     THEN /\ Clear
          /\ sessionQ' = Append(sessionQ, p.id)
          /\ procs' = Supersede((procs \ {p}) \cup
                 {[p EXCEPT !.pc = "sessionClear",
                            !.snapshot = tokenList(detectedTokens) \o Mirror]})
          /\ UNCHANGED activeTabId
     ELSE /\ End(p)
          /\ UNCHANGED <<workerVars, sessionQ>>
  /\ UNCHANGED <<storeVars, nEvents, notified, envVars, lastResponse, popupVars,
                 maskVars, wiped, faults>>

\* mutant: the cleanup removes the 'tokens' key of storage.local only and
\* leaves storage.session as it is
OnRemovedLocalOnly(p) ==
  /\ p.kind = "onRemoved"
  /\ ResumesFrom(sessionQ, p, "sessionClear")
  /\ sessionQ' = Tail(sessionQ)
  /\ localQ' = Append(localQ, p.id)
  /\ Goto(p, [p EXCEPT !.pc = "localRemove"])
  /\ wiped' = wiped \cup {p.snapshot[i] : i \in 1..Len(p.snapshot)}
  /\ UNCHANGED <<workerVars, storeVars, nEvents, notified, envVars,
                 lastResponse, popupVars, maskVars, faults>>

\* storage.session.clear() takes effect; line 481: storage.local.remove
OnRemovedSessionCleared(p) ==
  /\ p.kind = "onRemoved"
  /\ ResumesFrom(sessionQ, p, "sessionClear")
  /\ sessionQ' = Tail(sessionQ)
  /\ sessionTokens' = <<>>
  /\ localQ' = Append(localQ, p.id)
  /\ Goto(p, [p EXCEPT !.pc = "localRemove"])
  /\ wiped' = wiped \cup {p.snapshot[i] : i \in 1..Len(p.snapshot)}
  /\ UNCHANGED <<workerVars, storedSettings, nEvents, notified, envVars,
                 lastResponse, popupVars, maskVars, faults>>

\* storage.local.remove('tokens') leaves the settings key alone; line 482
OnRemovedDone(p) ==
  /\ p.kind = "onRemoved"
  /\ ResumesFrom(localQ, p, "localRemove")
  /\ localQ' = Tail(localQ)
  /\ End(p)
  /\ UNCHANGED <<workerVars, storeVars, sessionQ, nEvents, notified, envVars,
                 lastResponse, popupVars, maskVars, wiped, faults>>

TabStatuses == {"loading", "complete"}

Next ==
  \/ \E details \in Requests : HandleWebRequest(details)
  \/ \E p \in procs : WebRequestGotSettings(p)
  \/ \E p \in procs : WebRequestPersisted(p)
  \/ \E p \in procs : UpdateActiveTabQuery(p)
  \/ \E p \in procs : UpdateActiveTabQueried(p)
  \/ \E tabId \in Tabs : TabsOnActivated(tabId)
  \/ \E tabId \in Tabs, status \in TabStatuses : TabsOnUpdated(tabId, status)
  \/ \E p \in procs : ResetPersisted(p)
  \/ GetTokens
  \/ ScanStorage
  \/ \E p \in procs : ScanGotSettings(p)
  \/ \E p \in procs : ScanStorageFetched(p)
  \/ \E p \in procs : ScanQueried(p)
  \/ \E p \in procs : ScanCookiesFetched(p)
  \/ \E p \in procs : ScanAddToken(p)
  \/ \E p \in procs : ScanPersisted(p)
  \/ \E p \in procs : ScanRespond(p)
  \/ ClearData
  \/ \E p \in procs : ClearDataCleared(p)
  \/ \E settings \in SettingsChoices : SaveSettings(settings)
  \/ \E p \in procs : SaveSettingsSaved(p)
  \/ \E p \in procs : CommandPersisted(p)
  \/ WindowsOnRemoved
  \/ \E p \in procs : OnRemovedGotWindows(p)
  \/ \E p \in procs : OnRemovedGotSettings(p)
  \/ \E p \in procs : OnRemovedSessionCleared(p)
  \/ \E p \in procs : OnRemovedDone(p)

Spec == Init /\ [][Next]_vars

(***************************************************************************)
(* Properties of the worker (checked under Spec)                           *)
(***************************************************************************)
IsPrefix(a, b) == Len(a) <= Len(b) /\ SubSeq(b, 1, Len(a)) = a

\* C1: a token value is stored once however many sources it was seen at,
\* and its entry keeps the url and timestamp of the first accepted sighting.
C1_DedupKeepsFirst ==
  /\ Len(provenance) = Len(detectedTokens)
  /\ \A i, j \in 1..Len(detectedTokens) :
       i # j => detectedTokens[i].token # detectedTokens[j].token
  /\ \A i \in 1..Len(detectedTokens) :
       /\ detectedTokens[i].url = provenance[i].sources[1]
       /\ detectedTokens[i].timestamp = provenance[i].at

C1_Witness ==
  \E i \in 1..Len(detectedTokens) :
    /\ \E j \in 2..Len(provenance[i].sources) :
         provenance[i].sources[j] # provenance[i].sources[1]
    /\ detectedTokens[i].url = provenance[i].sources[1]

\* C2 as claimed: the map never holds more entries than the maxTokens of
\* the settings that are saved at that moment.
C2_BoundBySavedSettings ==
  Len(detectedTokens) <= getSettings(storedSettings).maxTokens

\* C3: a new token handed to addToken while the map is full is dropped: the
\* map, the session mirror, the pending mirror writes and the notifications
\* stay as they are; and no step ever removes or replaces single entries.
C3_CapacityDiscards ==
  [][/\ (overflow \subseteq overflow' /\ overflow' # overflow)
          => UNCHANGED <<detectedTokens, sessionTokens, sessionQ, notified>>
     /\ detectedTokens' # <<>> => IsPrefix(detectedTokens, detectedTokens')]_vars

C3_Witness ==
  /\ overflow # {}
  /\ detectedTokens # <<>>
  /\ \A t \in overflow : ~has(detectedTokens, t)

\* C4 as claimed: every entry taken from a request belongs to the tab that
\* is the active one.
C4_OnlyActiveTab ==
  \A i \in 1..Len(provenance) :
    provenance[i].via = "webRequest" => provenance[i].tab = activeTabId

\* the step at which a handler performs its detectedTokens.clear()
ClearStep ==
  \/ \E q \in procs' :
       /\ \A p \in procs : p.id # q.id
       /\ q.kind \in {"onActivated", "onUpdated", "clearData"}
  \/ \E p \in procs, q \in procs' :
       /\ p.id = q.id
       /\ \/ p.kind = "saveSettings" /\ p.pc = "save" /\ q.pc = "persist"
          \/ p.kind = "onRemoved" /\ p.pc = "getSettings" /\ q.pc = "sessionClear"

\* C5: tab activation, navigation of the active tab, SAVE_SETTINGS,
\* CLEAR_DATA and the shutdown cleanup each leave the map empty at their
\* clear, so that GET_TOKENS handled next answers with no entry.
C5_ResetsEmpty ==
  [][ClearStep => /\ detectedTokens' = <<>>
                  /\ tokenList(detectedTokens') = <<>>]_vars

\* two entries were mirrored, a tab was activated, the map is empty
C5_Witness ==
  /\ \E p \in procs : p.kind = "onActivated" /\ p.pc = "persist"
  /\ sessionTokens # <<>>
  /\ Len(sessionTokens[1]) = 2
  /\ detectedTokens = <<>>

\* C6 as claimed: once no SAVE_SETTINGS is under way, every entry was
\* extracted under the settings that are saved.
C6_NoEntryOfOldSettings ==
  (\A p \in procs : p.kind # "saveSettings")
  => \A i \in 1..Len(provenance) :
       provenance[i].settings = getSettings(storedSettings)

\* C7 as claimed: a scan that was in flight at a reset adds nothing
\* afterwards.
C7_SupersededScanAddsNothing ==
  \A i \in 1..Len(provenance) : ~provenance[i].superseded

\* handler p, suspended at pc, takes its next step
StepsFrom(p, kind, pc) ==
  /\ p.kind = kind /\ p.pc = pc
  /\ \A q \in procs' : q.id = p.id => q.pc # pc

\* no entry of list was inserted before event id was delivered
AllSince(list, id) == \A i \in 1..Len(list) : list[i].timestamp >= id

\* C11: CLEAR_DATA empties the map when it is received and wipes the session
\* mirror at its storage.session.clear(), whatever autoCleanup says; it
\* answers only after the wipe and its persistTokens have taken effect, and
\* at the answer neither the map nor the mirror holds an entry from before
\* the CLEAR_DATA: an entry they hold was inserted by another handler since.
C11_ClearDataWipes ==
  [][/\ (\E q \in procs' : q.kind = "clearData" /\ \A p \in procs : p.id # q.id)
          => detectedTokens' = <<>> /\ lastResponse' = lastResponse
     /\ \A p \in procs :
          /\ StepsFrom(p, "clearData", "sessionClear")
               => sessionTokens' = <<>> /\ lastResponse' = lastResponse
          /\ StepsFrom(p, "clearData", "persist")
               => /\ lastResponse' = Response("CLEAR_DATA", <<>>)
                  /\ sessionTokens' = <<p.snapshot>>
                  /\ AllSince(sessionTokens'[1], p.id)
                  /\ AllSince(tokenList(detectedTokens'), p.id)]_vars

\* CLEAR_DATA with autoCleanup off has emptied a map whose entries are still
\* in the mirror
C11_Witness ==
  /\ ~getSettings(storedSettings).autoCleanup
  /\ \E p \in procs : p.kind = "clearData" /\ p.pc = "sessionClear"
  /\ sessionTokens # <<>>
  /\ sessionTokens[1] # <<>>
  /\ detectedTokens = <<>>

\* handler p ends with this step
Ends(p) == \A q \in procs' : q.id # p.id

\* C12: the windows.onRemoved listener touches the map and the mirror only
\* when windows.getAll() reported no window and the settings it then read
\* have autoCleanup set: it empties the map at that point and wipes the
\* mirror at its storage.session.clear().  With a window left, or with
\* autoCleanup off, it ends leaving map, mirror, activeTabId and settings as
\* they were.  Every invocation that wipes leaves the same result (empty
\* map, no mirror), so a second invocation adds nothing to the first.
C12_OnRemovedWipesOnlyAtShutdown ==
  [][/\ (\E q \in procs' : q.kind = "onRemoved" /\ \A p \in procs : p.id # q.id)
          => UNCHANGED <<detectedTokens, sessionTokens, activeTabId, storedSettings>>
     /\ \A p \in procs :
          /\ (p.kind = "onRemoved" /\ p.pc # "getAll") => windowsOpen = 0
          /\ StepsFrom(p, "onRemoved", "getAll")
               => /\ UNCHANGED <<detectedTokens, sessionTokens, activeTabId,
                                 storedSettings>>
                  /\ windowsOpen > 0 => Ends(p)
          /\ StepsFrom(p, "onRemoved", "getSettings")
               => /\ UNCHANGED <<sessionTokens, activeTabId, storedSettings>>
                  /\ IF getSettings(storedSettings).autoCleanup
                     THEN detectedTokens' = <<>>
                     ELSE Ends(p) /\ UNCHANGED detectedTokens
          /\ StepsFrom(p, "onRemoved", "sessionClear")
               => /\ sessionTokens' = <<>>
                  /\ UNCHANGED <<detectedTokens, activeTabId, storedSettings>>
          /\ StepsFrom(p, "onRemoved", "localRemove")
               => /\ Ends(p)
                  /\ UNCHANGED <<detectedTokens, sessionTokens, activeTabId,
                                 storedSettings>>]_vars

\* the last window went, autoCleanup is set: the map has been emptied and the
\* mirror, which still holds entries, is about to be wiped
C12_Witness ==
  /\ windowsOpen = 0
  /\ \E p \in procs : p.kind = "onRemoved" /\ p.pc = "sessionClear"
  /\ sessionTokens # <<>>
  /\ sessionTokens[1] # <<>>
  /\ detectedTokens = <<>>

\* C13: once a shutdown cleanup has wiped the mirror, no entry that was in
\* the map or the mirror when that cleanup emptied the map is in the mirror
\* again: a storage.session.set issued before the cleanup takes effect
\* before the cleanup's storage.session.clear(), and one issued after it
\* carries a list built from the emptied map.
C13_NoWipedEntryReturns ==
  \A i \in 1..Len(Mirror) : Mirror[i] \notin wiped

\* a shutdown cleanup that wiped mirrored entries has ended
C13_Witness ==
  /\ wiped # {}
  /\ windowsOpen = 0
  /\ \A p \in procs : p.kind # "onRemoved"

\* the source a scan read from its settings
SourceOf(p) == p.settings[1].tokenSource

\* C21: only the configured source is evaluated.  A request handler that
\* reads settings whose tokenSource is not 'headers' ends there and leaves
\* the map, the mirror, the pending mirror writes and the notifications as
\* they were.  A scan that read 'headers' starts no fetch, has no candidate
\* and leaves the map as it was; a scan that read 'storage' never queries
\* the tab for cookies and every candidate it has comes from localStorage or
\* sessionStorage; a scan that read 'cookies' never runs the storage script
\* and every candidate it has comes from a cookie.
C21_OnlyConfiguredSource ==
  [][\A p \in procs :
       /\ (StepsFrom(p, "webRequest", "getSettings")
             /\ getSettings(storedSettings).tokenSource # "headers")
            => Ends(p) /\ UNCHANGED <<detectedTokens, sessionTokens, sessionQ, notified>>
       /\ (p.kind = "scan" /\ p.settings # <<>>)
            => /\ SourceOf(p) = "headers"
                    => /\ p.pc = "loop" /\ p.items = <<>>
                       /\ Ends(p) => UNCHANGED <<detectedTokens, sessionTokens, notified>>
               /\ SourceOf(p) = "storage"
                    => /\ p.pc \notin {"query", "cookiesGetAll"}
                       /\ \A i \in 1..Len(p.items) :
                            \/ IsPrefix(LocalStorageLabel, p.items[i].url)
                            \/ IsPrefix(SessionStorageLabel, p.items[i].url)
               /\ SourceOf(p) = "cookies"
                    => /\ p.pc # "executeScript"
                       /\ \A i \in 1..Len(p.items) :
                            IsPrefix(CookieLabel, p.items[i].url)]_vars

\* the saved source is 'storage', a scan has filled the map, and a request
\* of the active tab that carries a bearer token is about to read the settings
C21_Witness ==
  /\ getSettings(storedSettings).tokenSource = "storage"
  /\ detectedTokens # <<>>
  /\ localQ # <<>>
  /\ \E p \in procs :
       /\ p.kind = "webRequest" /\ p.pc = "getSettings" /\ Head(localQ) = p.id
       /\ extractTokenFromHeaders(p.details[1].requestHeaders, DEFAULT_SETTINGS)
            \notin {Null, Undef, Thrown, <<>>}

\* C27: the SCAN_STORAGE answer is sent by a scan that has read its
\* settings, is past its fetch and has handed every candidate of the fetch
\* to addToken, each mirror write of the loop having taken effect; the list
\* it carries is the map as it is when the answer is sent.  No other step
\* sends a SCAN_STORAGE answer.
C27_ScanAnswersAfterLoop ==
  [][/\ \A p \in procs :
          (p.kind = "scan" /\ Ends(p))
          => /\ p.pc = "loop" /\ p.settings # <<>> /\ p.items = <<>>
             /\ \A i \in 1..Len(sessionQ) : sessionQ[i] # p.id
             /\ lastResponse' = Response("SCAN_STORAGE", tokenList(detectedTokens'))
             /\ UNCHANGED detectedTokens
     /\ (lastResponse' # lastResponse /\ lastResponse'.type = "SCAN_STORAGE")
          => \E p \in procs : p.kind = "scan" /\ Ends(p)]_vars

\* a scan has answered with the two entries its loop inserted
C27_Witness ==
  /\ lastResponse.type = "SCAN_STORAGE"
  /\ Len(lastResponse.tokens) = 2
  /\ lastResponse.tokens = tokenList(detectedTokens)
  /\ \A i \in 1..Len(provenance) : provenance[i].via = "scan"
  /\ \A p \in procs : p.kind # "scan"

\* C30 as claimed: a tab activation whose tab id is the stored activeTabId
\* is a no-op: the map stays as it is and no mirror write is issued.
C30_SameTabNoOp ==
  [][(/\ \E q \in procs' : q.kind = "onActivated" /\ \A p \in procs : p.id # q.id
      /\ activeTabId' = activeTabId)
     => UNCHANGED <<detectedTokens, sessionQ>>]_vars

\* C31: a tabs.onUpdated event resets the map exactly when it is for the
\* active tab and its status is 'loading': it then empties the map, issues a
\* mirror write of the empty list and leaves activeTabId as it is.  An update
\* of another tab, or with another status, leaves the map, the mirror, the
\* pending mirror writes, the suspended handlers and activeTabId unchanged.
C31_OnUpdatedResetsActiveLoading ==
  [][/\ \A tabId \in Tabs, status \in TabStatuses :
          TabsOnUpdated(tabId, status)
          => IF tabId = activeTabId /\ status = "loading"
             THEN /\ detectedTokens' = <<>>
                  /\ activeTabId' = activeTabId
                  /\ sessionQ' = Append(sessionQ, nEvents')
                  /\ \E q \in procs' : q.id = nEvents' /\ q.kind = "onUpdated"
                                       /\ q.snapshot = <<>>
             ELSE UNCHANGED <<detectedTokens, sessionTokens, sessionQ, procs,
                              activeTabId>>
     /\ \A q \in procs' :
          (q.kind = "onUpdated" /\ \A p \in procs : p.id # q.id)
          => /\ activeTabId \in Tabs
             /\ activeTabId' = activeTabId
             /\ detectedTokens' = <<>>]_vars

\* the active tab started loading while the map held two entries: the map is
\* empty, the mirror still lists the two, activeTabId is the tab it was
C31_Witness ==
  /\ \E p \in procs : p.kind = "onUpdated" /\ p.pc = "persist"
  /\ detectedTokens = <<>>
  /\ Len(Mirror) = 2
  /\ activeTabId \in Tabs

\* C32: a step leaves the map as it is, or appends one entry to it, or
\* empties it.  An entry is appended only while the map holds fewer entries
\* than the maxTokens its addToken call was given.  No step takes a single
\* entry out or changes the url or timestamp of an entry.
C32_SizeSteps ==
  [][\/ detectedTokens' = detectedTokens
     \/ /\ Len(detectedTokens') = Len(detectedTokens) + 1
        /\ SubSeq(detectedTokens', 1, Len(detectedTokens)) = detectedTokens
        /\ Len(detectedTokens) < provenance'[Len(provenance')].settings.maxTokens
        /\ Len(provenance') = Len(detectedTokens')
     \/ detectedTokens' = <<>>]_vars

\* the map has grown from one entry to two while the mirror write of the
\* first is still to be answered, under settings that allow two entries
C32_Witness ==
  /\ Len(detectedTokens) = 2
  /\ provenance[2].settings.maxTokens = 2
  /\ \E p \in procs : p.pc = "persist" /\ p.snapshot = detectedTokens
  /\ Len(Mirror) = 1

\* C33: addToken's duplicate check, capacity check and Map.set run without
\* an await between them, so whatever the interleaving of request handlers
\* and scans at their awaits: no two entries share a token, and each entry
\* was appended while the map held fewer entries than the maxTokens passed
\* to its addToken call.
C33_AtomicCheckAndInsert ==
  /\ \A i, j \in 1..Len(detectedTokens) :
       detectedTokens[i].token = detectedTokens[j].token => i = j
  /\ Len(provenance) = Len(detectedTokens)
  /\ \A i \in 1..Len(detectedTokens) : i <= provenance[i].settings.maxTokens

\* a second call carrying the token of an entry came while the call that
\* inserted the entry was still waiting for its mirror write
C33_Witness ==
  \E i \in 1..Len(detectedTokens), p \in procs :
    /\ Len(provenance[i].sources) >= 2
    /\ p.pc = "persist" /\ p.snapshot # <<>>
    /\ p.snapshot[Len(p.snapshot)] = detectedTokens[i]

\* C34: GET_TOKENS answers with the entries of the map as it is when the
\* message is handled, in insertion order (timestamps never decrease along
\* the list), each entry whole; handling it leaves the map, the mirror, the
\* pending storage calls, activeTabId and the settings as they were.
C34_GetTokensSnapshot ==
  [][/\ GetTokens
          => /\ lastResponse'.tokens = tokenList(detectedTokens)
             /\ UNCHANGED <<detectedTokens, sessionTokens, sessionQ, localQ,
                            activeTabId, storedSettings>>
     /\ (lastResponse'.type = "GET_TOKENS" /\ lastResponse' # lastResponse)
          => /\ lastResponse'.tokens = tokenList(detectedTokens')
             /\ UNCHANGED <<detectedTokens, sessionTokens, sessionQ, localQ,
                            activeTabId, storedSettings>>
             /\ \A i, j \in 1..Len(lastResponse'.tokens) :
                  i < j => lastResponse'.tokens[i].timestamp
                             <= lastResponse'.tokens[j].timestamp
             /\ \A i \in 1..Len(lastResponse'.tokens) :
                  /\ lastResponse'.tokens[i].url = provenance[i].sources[1]
                  /\ lastResponse'.tokens[i].timestamp = provenance[i].at]_vars

\* GET_TOKENS was answered with the two entries of the map while the mirror
\* write of the second was still pending
C34_Witness ==
  /\ lastResponse.type = "GET_TOKENS"
  /\ Len(lastResponse.tokens) = 2
  /\ lastResponse.tokens = tokenList(detectedTokens)
  /\ Len(Mirror) < 2

\* no handler is suspended and every storage call issued has been answered
Quiescent == procs = {} /\ localQ = <<>> /\ sessionQ = <<>>

\* C35: whenever no handler is suspended and all storage calls have been
\* carried out in the order they were issued, the 'tokens' list of
\* chrome.storage.session equals the map entry for entry and in the same
\* order, an absent key counting as the empty list.
C35_MirrorEqualsMap ==
  Quiescent => Mirror = tokenList(detectedTokens)

\* after a CLEAR_DATA was answered and a later insertion was mirrored, all
\* is quiet and the mirror lists the entry of the map
C35_Witness ==
  /\ Quiescent
  /\ lastResponse.type = "CLEAR_DATA"
  /\ detectedTokens # <<>>
  /\ Mirror = tokenList(detectedTokens)

\* C36 as claimed: once the start-up updateActiveTab has ended, activeTabId
\* is the tab activated last (the tab that is active in the browser), and
\* the start-up query, when it ends after a tab activation, leaves
\* activeTabId and the map as that activation's handlers left them.
C36_LatestActivationWins ==
  /\ [](((\A p \in procs : p.kind # "updateActiveTab") /\ BrowserOpen)
          => activeTabId = browserTab)
  /\ [][\A p \in procs :
          (p.kind = "updateActiveTab" /\ p.pc = "queried" /\ activeTabId # NoTab
             /\ \A q \in procs' : q.id = p.id => q.pc # "queried")
          => UNCHANGED <<activeTabId, detectedTokens>>]_vars

\* C37 as claimed: the tab a scan reads is the tab activeTabId names when
\* the read is started, for the storage script and for the cookies alike, so
\* every entry a scan inserts was read from that tab.
C37_ScanReadsActiveTab ==
  [][\A p \in procs, q \in procs' :
       (p.kind = "scan" /\ q.id = p.id
          /\ p.pc \in {"getSettings", "query"}
          /\ q.pc \in {"executeScript", "cookiesGetAll"})
       => q.tab = activeTabId]_vars

(***************************************************************************)
(* The worker under fair scheduling (SpecLive): a call of chrome.storage,  *)
(* chrome.tabs, chrome.scripting, chrome.cookies or chrome.windows is      *)
(* answered in the end, and a handler that can go on does go on.           *)
(***************************************************************************)
\* chrome.storage.local answers its oldest call
LocalAnswers ==
  \/ \E p \in procs : WebRequestGotSettings(p)
  \/ \E p \in procs : ScanGotSettings(p)
  \/ \E p \in procs : SaveSettingsSaved(p)
  \/ \E p \in procs : OnRemovedGotSettings(p)
  \/ \E p \in procs : OnRemovedDone(p)

\* chrome.storage.session answers its oldest call
SessionAnswers ==
  \/ \E p \in procs : WebRequestPersisted(p)
  \/ \E p \in procs : ResetPersisted(p)
  \/ \E p \in procs : ScanPersisted(p)
  \/ \E p \in procs : ClearDataCleared(p)
  \/ \E p \in procs : CommandPersisted(p)
  \/ \E p \in procs : OnRemovedSessionCleared(p)

\* the browser answers a query, a fetch resolves, a running handler goes on
HandlerGoesOn ==
  \/ \E p \in procs : UpdateActiveTabQuery(p)
  \/ \E p \in procs : UpdateActiveTabQueried(p)
  \/ \E p \in procs : ScanStorageFetched(p)
  \/ \E p \in procs : ScanQueried(p)
  \/ \E p \in procs : ScanCookiesFetched(p)
  \/ \E p \in procs : ScanAddToken(p)
  \/ \E p \in procs : ScanRespond(p)
  \/ \E p \in procs : OnRemovedGotWindows(p)

\* settings chrome.storage.local may hold when the worker starts
SavedSettings ==
  SettingsChoices \cup
    {[DEFAULT_SETTINGS EXCEPT !.tokenType = "session", !.maxTokens = 2],
     [DEFAULT_SETTINGS EXCEPT !.tokenType = "custom", !.customHeaderName = XApiKey]}

InitSaved ==
  /\ storedSettings \in {<<>>} \cup {<<s>> : s \in SavedSettings}
  /\ detectedTokens = <<>>
  /\ provenance = <<>>
  /\ overflow = {}
  /\ activeTabId = NoTab
  /\ sessionTokens = <<>>
  /\ localQ = <<>>
  /\ sessionQ = <<>>
  /\ procs = {[id |-> 0, kind |-> "updateActiveTab", pc |-> "query",
               settings |-> <<>>, details |-> <<>>, tab |-> NoTab, items |-> <<>>,
               snapshot |-> <<>>, superseded |-> FALSE]}
  /\ nEvents = 0
  /\ notified = 0
  /\ browserTab = 1
  /\ windowsOpen = MaxWindows
  /\ lastResponse = NoResponse
  /\ page = NoPage
  /\ clipboard = Undef
  /\ saveStatus = NoStatus
  /\ wiped = {}
  /\ faults = {}
  /\ MaskIdle

\* events delivered to the worker in a behaviour of SpecLive
MaxLiveEvents == 2

LiveEvent == nEvents < MaxLiveEvents

\* requests, scans, tab activations and manual clears
LiveNext ==
  \/ LiveEvent /\ \E details \in Requests : HandleWebRequest(details)
  \/ \E p \in procs : WebRequestGotSettings(p)
  \/ \E p \in procs : WebRequestPersisted(p)
  \/ \E p \in procs : UpdateActiveTabQuery(p)
  \/ \E p \in procs : UpdateActiveTabQueried(p)
  \/ LiveEvent /\ \E tabId \in Tabs : TabsOnActivated(tabId)
  \/ \E p \in procs : ResetPersisted(p)
  \/ LiveEvent /\ ScanStorage
  \/ \E p \in procs : ScanGotSettings(p)
  \/ \E p \in procs : ScanStorageFetched(p)
  \/ \E p \in procs : ScanQueried(p)
  \/ \E p \in procs : ScanCookiesFetched(p)
  \/ \E p \in procs : ScanAddToken(p)
  \/ \E p \in procs : ScanPersisted(p)
  \/ \E p \in procs : ScanRespond(p)
  \/ LiveEvent /\ ClearData
  \/ \E p \in procs : ClearDataCleared(p)
  \/ \E p \in procs : CommandPersisted(p)

SpecLive ==
  /\ InitSaved /\ [][LiveNext]_vars
  /\ WF_vars(LocalAnswers) /\ WF_vars(SessionAnswers) /\ WF_vars(HandlerGoesOn)

\* addToken has set an entry and is waiting at `await persistTokens()`
Inserting(p) == p.kind \in {"webRequest", "scan"} /\ p.pc = "persist"

\* the entry addToken line 130 had set when it called persistTokens
Inserted(p) == p.snapshot[Len(p.snapshot)]

Clearing(p) ==
  /\ p.kind \in {"updateActiveTab", "onActivated", "onUpdated", "clearData",
                 "saveSettings", "onRemoved"}
  /\ p.pc \in {"persist", "sessionClear", "localRemove"}

\* C25 as claimed: whenever a handler has emptied the map (tab activation,
\* navigation of the active tab, SAVE_SETTINGS, CLEAR_DATA, shutdown
\* cleanup), a TOKENS_UPDATED is sent afterwards.
C25_EveryClearNotifies ==
  \A n \in 0..(4 * MaxLiveEvents) :
    ((\E p \in procs : Clearing(p)) /\ notified = n) ~> (notified > n)

(***************************************************************************)
(* Failures inside the handlers (SpecFaults): a request whose header list  *)
(* is malformed, a chrome.storage.session.set that rejects, an             *)
(* executeScript or cookies.getAll that rejects.                          *)
(***************************************************************************)
\* requests of the active tab: well formed ones, one whose header has no
\* name, one whose Authorization header has no value (binaryValue only), one
\* whose session header is empty, one whose session header has a value
FaultRequests ==
  { [tabId |-> 1, url |-> U1, requestHeaders |-> <<Hdr(Authorization, BearerSp \o TokA)>>],
    [tabId |-> 1, url |-> U1, requestHeaders |-> <<Hdr(Undef, TokA), Hdr(Authorization, BearerSp \o TokA)>>],
    [tabId |-> 1, url |-> U1, requestHeaders |-> <<Hdr(Authorization, Undef)>>],
    [tabId |-> 1, url |-> U1, requestHeaders |-> <<Hdr(XSessionToken, <<>>), Hdr(XSessionToken, TokB)>>],
    [tabId |-> 1, url |-> U2, requestHeaders |-> <<Hdr(XSessionToken, TokB)>>],
    [tabId |-> 1, url |-> U2, requestHeaders |-> <<Hdr(XApiKey, <<>>)>>] }

\* persistTokens line 155: chrome.storage.session.set rejects.  addToken
\* has no try block, so the rejection leaves addToken at line 136 and the
\* handler that awaited it: nothing is notified, nothing is answered.
PersistRejected(p) ==
  /\ p.kind \in {"webRequest", "scan"}
  /\ ResumesFrom(sessionQ, p, "persist")
  /\ sessionQ' = Tail(sessionQ)
  /\ faults' = faults \cup {Fault(p, "persistTokens", <<Inserted(p)>>, FALSE)}
  /\ End(p)
  /\ UNCHANGED <<workerVars, storeVars, localQ, nEvents, notified, envVars,
                 lastResponse, popupVars, maskVars, wiped>>

\* extractTokensFromStorage lines 328-330, extractTokensFromCookies lines
\* 370-372: the fetch rejects, the catch block returns []
ScanFetchFailed(p) ==
  /\ \/ Resumes(p, "scan", "executeScript")
     \/ Resumes(p, "scan", "cookiesGetAll")
  /\ Goto(p, [p EXCEPT !.pc = "loop", !.items = <<>>])
  /\ faults' = faults \cup
       {Fault(p, IF p.pc = "executeScript" THEN "extractTokensFromStorage"
                 ELSE "extractTokensFromCookies", <<>>, TRUE)}
  /\ UNCHANGED <<workerVars, storeVars, localQ, sessionQ, nEvents, notified,
                 envVars, lastResponse, popupVars, maskVars, wiped>>

FaultNext ==
  \/ \E details \in FaultRequests : HandleWebRequest(details)
  \/ \E p \in procs : WebRequestGotSettings(p)
  \/ \E p \in procs : WebRequestPersisted(p)
  \/ \E p \in procs : PersistRejected(p)
  \/ \E p \in procs : UpdateActiveTabQuery(p)
  \/ \E p \in procs : UpdateActiveTabQueried(p)
  \/ \E p \in procs : ResetPersisted(p)
  \/ GetTokens
  \/ ScanStorage
  \/ \E p \in procs : ScanGotSettings(p)
  \/ \E p \in procs : ScanStorageFetched(p)
  \/ \E p \in procs : ScanQueried(p)
  \/ \E p \in procs : ScanCookiesFetched(p)
  \/ \E p \in procs : ScanFetchFailed(p)
  \/ \E p \in procs : ScanAddToken(p)
  \/ \E p \in procs : ScanPersisted(p)
  \/ \E p \in procs : ScanRespond(p)

SpecFaults == InitSaved /\ [][FaultNext]_vars

\* a header list with an entry that has no name, or an authorization entry
\* that has no value
Malformed(headers) ==
  \E i \in 1..Len(headers) :
    \/ headers[i].name = Undef
    \/ toLowerCase(headers[i].name) = toLowerCase(Authorization) /\ headers[i].value = Undef

\* C22 as claimed: a malformed request of the active tab is treated as no
\* match: the handler leaves the map and the mirror as they were and no
\* exception leaves it uncaught.
C22_MalformedContained ==
  [][\A p \in procs :
       (StepsFrom(p, "webRequest", "getSettings")
          /\ Malformed(p.details[1].requestHeaders))
       => /\ UNCHANGED <<detectedTokens, sessionTokens>>
          /\ \A f \in faults' : f.id = p.id => f.caught]_vars

\* C23 as claimed: the map holds no entry whose ingest ended in an
\* exception: when the mirror write of an addToken rejects, the entry that
\* addToken had set is taken out of the map again.
C23_FailedIngestRolledBack ==
  \A f \in faults :
    f.what = "persistTokens"
    => \A i \in 1..Len(detectedTokens) : detectedTokens[i] # f.entry[1]

\* C26 as claimed: a scan whose fetch failed leaves the map as it was and
\* answers with something other than an ordinary SCAN_STORAGE token list.
C26_ScanFailureReported ==
  [][\A p \in procs :
       (p.kind = "scan" /\ Ends(p)
          /\ \E f \in faults : f.id = p.id /\ f.caught)
       => /\ UNCHANGED detectedTokens
          /\ lastResponse' # Response("SCAN_STORAGE", tokenList(detectedTokens'))]_vars

\* the value extractTokenFromHeaders returns to request handler p under the
\* saved settings
Extracted(p) ==
  extractTokenFromHeaders(p.details[1].requestHeaders, getSettings(storedSettings))

\* C29: every token in the map is a non-empty string, and one a scan
\* inserted is longer than 10 characters.  A request whose matching header
\* has an empty value adds nothing: its handler ends and leaves the map, the
\* mirror and the pending mirror writes as they were.
C29_StoredTokensNonEmpty ==
  /\ [](\A i \in 1..Len(detectedTokens) :
          /\ detectedTokens[i].token \notin {<<>>, Undef, Null, Thrown}
          /\ provenance[i].via = "scan"
               => Len(detectedTokens[i].token) > MinValueLen)
  /\ [][\A p \in procs :
          (StepsFrom(p, "webRequest", "getSettings") /\ Extracted(p) = <<>>)
          => Ends(p) /\ UNCHANGED <<detectedTokens, sessionTokens, sessionQ>>]_vars

\* the map holds a session token, and a request whose session header is
\* empty is about to be examined under tokenType 'session'
C29_Witness ==
  /\ getSettings(storedSettings).tokenType = "session"
  /\ getSettings(storedSettings).tokenSource = "headers"
  /\ detectedTokens # <<>>
  /\ localQ # <<>>
  /\ \E p \in procs :
       /\ p.kind = "webRequest" /\ p.pc = "getSettings" /\ Head(localQ) = p.id
       /\ Extracted(p) = <<>>

(***************************************************************************)
(* popup.js : loadTokens and the copy buttons (SpecPopup)                  *)
(***************************************************************************)
\* loadTokens line 156: GET_SETTINGS is sent and the worker calls getSettings
LoadTokens ==
  /\ CanHappen /\ BrowserOpen
  /\ nEvents' = nEvents + 1
  /\ procs' = procs \cup {NewProc("loadTokens", "getSettings")}
  /\ localQ' = Append(localQ, nEvents + 1)
  /\ UNCHANGED <<workerVars, storeVars, sessionQ, notified, envVars, lastResponse,
                 popupVars, maskVars, wiped, faults>>

\* background.js lines 436-437 answer; popup.js lines 157-160 send GET_TOKENS
LoadTokensGotSettings(p) ==
  /\ p.kind = "loadTokens"
  /\ ResumesFrom(localQ, p, "getSettings")
  /\ localQ' = Tail(localQ)
  /\ lastResponse' = Response("GET_SETTINGS", <<>>)
  /\ Goto(p, [p EXCEPT !.pc = "getTokens",
                       !.settings = <<getSettings(storedSettings)>>])
  /\ UNCHANGED <<workerVars, storeVars, sessionQ, nEvents, notified, envVars,
                 popupVars, maskVars, wiped, faults>>

\* settingsResponse.settings?.maxTokens || 5
OrFive(maxTokens) == IF maxTokens = 0 THEN 5 ELSE maxTokens

\* background.js lines 383-393 answer GET_TOKENS; popup.js lines 161-163
\* render the answer
LoadTokensGotTokens(p) ==
  /\ Resumes(p, "loadTokens", "getTokens")
  /\ lastResponse' = Response("GET_TOKENS", tokenList(detectedTokens))
  /\ page' = renderTokens(lastResponse'.tokens, OrFive(p.settings[1].maxTokens))
  /\ End(p)
  /\ UNCHANGED <<workerVars, storeVars, localQ, sessionQ, nEvents, notified,
                 envVars, clipboard, saveStatus, maskVars, wiped, faults>>

\* popup.js lines 207-208: the scan button's SCAN_STORAGE is answered
\* (background.js lines 416-419) and the button sends GET_SETTINGS
ScanButtonAnswered(p) ==
  /\ p.kind = "scan" /\ p.pc = "loop"
  /\ p.items = <<>>
  /\ lastResponse' = Response("SCAN_STORAGE", tokenList(detectedTokens))
  /\ localQ' = Append(localQ, p.id)
  /\ Goto(p, [p EXCEPT !.pc = "buttonSettings", !.snapshot = lastResponse'.tokens])
  /\ UNCHANGED <<workerVars, storeVars, sessionQ, nEvents, notified,
                 envVars, popupVars, maskVars, wiped, faults>>

\* popup.js lines 208-211: GET_SETTINGS is answered and the button renders
\* the tokens of the scan's answer
ScanButtonRender(p) ==
  /\ p.kind = "scan"
  /\ ResumesFrom(localQ, p, "buttonSettings")
  /\ localQ' = Tail(localQ)
  /\ page' = renderTokens(p.snapshot, OrFive(getSettings(storedSettings).maxTokens))
  /\ End(p)
  /\ UNCHANGED <<workerVars, storeVars, sessionQ, nEvents, notified, envVars,
                 lastResponse, clipboard, saveStatus, maskVars, wiped, faults>>

\* popup.js lines 132-135: a click on the copy button of card i
CopyClick(i) ==
  /\ i \in 1..Len(page.cards)
  /\ clipboard' = decodeURIComponent(page.cards[i].dataToken)
  /\ clipboard' # clipboard
  /\ UNCHANGED <<workerVars, storeVars, localQ, sessionQ, procs, nEvents, notified,
                 envVars, lastResponse, page, saveStatus, maskVars, wiped, faults>>

\* DEFAULT_SETTINGS.maxTokens bounds the cards of a page
MaxCards == 5

\* the popup together with the worker's request, scan and settings handlers
PopupNext ==
  \/ LoadTokens
  \/ \E p \in procs : LoadTokensGotSettings(p)
  \/ \E p \in procs : LoadTokensGotTokens(p)
  \/ \E i \in 1..MaxCards : CopyClick(i)
  \/ \E details \in Requests : HandleWebRequest(details)
  \/ \E p \in procs : WebRequestGotSettings(p)
  \/ \E p \in procs : WebRequestPersisted(p)
  \/ \E p \in procs : UpdateActiveTabQuery(p)
  \/ \E p \in procs : UpdateActiveTabQueried(p)
  \/ \E p \in procs : ResetPersisted(p)
  \/ ScanStorage
  \/ \E p \in procs : ScanGotSettings(p)
  \/ \E p \in procs : ScanStorageFetched(p)
  \/ \E p \in procs : ScanQueried(p)
  \/ \E p \in procs : ScanCookiesFetched(p)
  \/ \E p \in procs : ScanAddToken(p)
  \/ \E p \in procs : ScanPersisted(p)
  \/ \E p \in procs : ScanButtonAnswered(p)
  \/ \E p \in procs : ScanButtonRender(p)
  \/ \E settings \in SettingsChoices : SaveSettings(settings)
  \/ \E p \in procs : SaveSettingsSaved(p)
  \/ \E p \in procs : CommandPersisted(p)

SpecPopup == Init /\ [][PopupNext]_vars

\* a string maskToken can have produced
IsMaskedValue(v) ==
  \/ v = Placeholder
  \/ \E n \in 1..MaskCap :
       /\ Len(v) = visibleStart + n * Len(MaskGlyph) + visibleEnd
       /\ SubSeq(v, visibleStart + 1, Len(v) - visibleEnd) = Repeat(MaskGlyph, n)

\* the token values the pages of the two tabs use
RawTokens == {TokA, TokB, TokC}

ListsTokens(r) == r.type \in {"GET_TOKENS", "SCAN_STORAGE"}

\* C9 as claimed: the listings sent to the popup and the rendered page hold
\* masked token values only.
C9_ListingMasked ==
  /\ ListsTokens(lastResponse) =>
       \A i \in 1..Len(lastResponse.tokens) :
         IsMaskedValue(lastResponse.tokens[i].token)
  /\ \A i \in 1..Len(page.cards) :
       /\ IsMaskedValue(page.cards[i].code)
       /\ decodeURIComponent(page.cards[i].dataToken) \notin RawTokens

\* C9 amended: the GET_TOKENS and SCAN_STORAGE answers carry the raw tokens
\* of the map; renderTokens shows each token as maskToken(token) in the
\* card's text and keeps the raw token, URI-encoded, in the data-token
\* attribute of its copy button; the clipboard only ever holds a token that
\* a click on a copy button put there.
C9_MaskedOnScreenOnly ==
  [][/\ ListsTokens(lastResponse') =>
          \A i \in 1..Len(lastResponse'.tokens) :
            lastResponse'.tokens[i].token \in RawTokens
     /\ \A i \in 1..Len(page'.cards) :
          /\ decodeURIComponent(page'.cards[i].dataToken) \in RawTokens
          /\ page'.cards[i].code = maskToken(decodeURIComponent(page'.cards[i].dataToken))
          /\ IsMaskedValue(page'.cards[i].code)
          /\ page'.cards[i].code \notin RawTokens
     /\ clipboard' # clipboard =>
          \E i \in 1..Len(page.cards) :
            /\ clipboard' = decodeURIComponent(page.cards[i].dataToken)
            /\ UNCHANGED <<page, lastResponse, detectedTokens>>]_vars

C9_Witness ==
  /\ lastResponse.type = "GET_TOKENS"
  /\ Len(lastResponse.tokens) = 2
  /\ Len(page.cards) = 2
  /\ clipboard = TokB

\* C28 as claimed: a rendered page never shows more cards than the maximum
\* it displays, and that maximum is at most 5.
C28_CardsWithinMax ==
  /\ page.count <= page.max
  /\ Len(page.cards) <= page.max
  /\ page.max <= DEFAULT_SETTINGS.maxTokens

(***************************************************************************)
(* settings.js : the settings form (SpecSettings)                          *)
(***************************************************************************)
\* String.prototype.trim
trim(str) ==
  LET keep == {i \in 1..Len(str) : ~IsSpace(str[i])}
  IN IF keep = {} THEN <<>>
     ELSE SubSeq(str, CHOOSE i \in keep : \A j \in keep : i <= j,
                      CHOOSE i \in keep : \A j \in keep : i >= j)

\* settings.js lines 132-134
ClampMaxTokens(value) ==
  IF value > 5 THEN 5 ELSE IF value < 1 THEN 1 ELSE value

\* settings.js lines 136-142: the settings object built from the form
FormSettings(form) ==
  [tokenType |-> form.tokenType,
   customHeaderName |-> IF form.tokenType = "custom"
                        THEN trim(form.customHeaderInput) ELSE <<>>,
   tokenSource |-> form.tokenSource,
   maxTokens |-> ClampMaxTokens(form.maxTokensSlider),
   autoCleanup |-> form.autoCleanup]

\* settings.js line 146
HeaderNameMissing == [text |-> "Please enter a custom header name", type |-> "error"]

\* what the user has put into the form when pressing Save
Forms ==
  { [tokenType |-> "custom", customHeaderInput |-> <<" ", "\t">>,
     tokenSource |-> "headers", maxTokensSlider |-> 3, autoCleanup |-> TRUE],
    [tokenType |-> "custom", customHeaderInput |-> <<>>,
     tokenSource |-> "storage", maxTokensSlider |-> 2, autoCleanup |-> FALSE],
    [tokenType |-> "custom", customHeaderInput |-> <<" ">> \o XApiKey \o <<" ">>,
     tokenSource |-> "headers", maxTokensSlider |-> 6, autoCleanup |-> TRUE],
    [tokenType |-> "bearer", customHeaderInput |-> XApiKey,
     tokenSource |-> "headers", maxTokensSlider |-> 0, autoCleanup |-> TRUE] }

\* mutant: the header name is tested as typed, before trim()
SubmitSettingsFormUntrimmed(form) ==
  /\ CanHappen /\ BrowserOpen
  /\ nEvents' = nEvents + 1
  /\ IF form.tokenType = "custom" /\ form.customHeaderInput = <<>>
     THEN /\ saveStatus' = HeaderNameMissing
          /\ UNCHANGED <<procs, localQ>>
     ELSE /\ procs' = procs \cup
               {[NewProc("saveSettings", "save") EXCEPT
                   !.settings = <<FormSettings(form)>>, !.details = <<SettingsPage>>]}
          /\ localQ' = Append(localQ, nEvents + 1)
          /\ UNCHANGED saveStatus
  /\ UNCHANGED <<workerVars, storeVars, sessionQ, notified, envVars, lastResponse,
                 page, clipboard, maskVars, wiped, faults>>

\* settingsForm submit listener, settings.js lines 124-152
SubmitSettingsForm(form) ==
  /\ CanHappen /\ BrowserOpen
  /\ nEvents' = nEvents + 1
  /\ IF form.tokenType = "custom" /\ FormSettings(form).customHeaderName = <<>>
     THEN /\ saveStatus' = HeaderNameMissing
          /\ UNCHANGED <<procs, localQ>>
     ELSE /\ procs' = procs \cup
               {[NewProc("saveSettings", "save") EXCEPT
                   !.settings = <<FormSettings(form)>>, !.details = <<SettingsPage>>]}
          /\ localQ' = Append(localQ, nEvents + 1)
          /\ UNCHANGED saveStatus
  /\ UNCHANGED <<workerVars, storeVars, sessionQ, notified, envVars, lastResponse,
                 page, clipboard, maskVars, wiped, faults>>

\* showSaveStatus, settings.js lines 98-101: the timer clears the message
SaveStatusFades ==
  /\ saveStatus # NoStatus
  /\ saveStatus' = NoStatus
  /\ UNCHANGED <<workerVars, storeVars, localQ, sessionQ, procs, nEvents, notified,
                 envVars, lastResponse, page, clipboard, maskVars, wiped, faults>>

\* settings objects a SAVE_SETTINGS message may carry: the onMessage
\* listener takes the message of any page of the extension as it comes
SettingsMessages ==
  SettingsChoices \cup { [DEFAULT_SETTINGS EXCEPT !.maxTokens = 0],
                         [DEFAULT_SETTINGS EXCEPT !.maxTokens = 6] }

SettingsNext ==
  \/ \E form \in Forms : SubmitSettingsForm(form)
  \/ SaveStatusFades
  \/ \E settings \in SettingsMessages : SaveSettings(settings)
  \/ \E p \in procs : SaveSettingsSaved(p)
  \/ \E p \in procs : CommandPersisted(p)
  \/ \E details \in Requests : HandleWebRequest(details)
  \/ \E p \in procs : WebRequestGotSettings(p)
  \/ \E p \in procs : WebRequestPersisted(p)
  \/ \E p \in procs : UpdateActiveTabQuery(p)
  \/ \E p \in procs : UpdateActiveTabQueried(p)
  \/ \E p \in procs : ResetPersisted(p)

SpecSettings == Init /\ [][SettingsNext]_vars

\* C14 as claimed: the settings the worker has stored always carry a
\* maxTokens between 1 and 5.
C14_StoredMaxTokensInRange ==
  storedSettings # <<>> => storedSettings[1].maxTokens \in 1..5

\* C15: a submit of the form with token type 'custom' and a header name that
\* is empty after trim() shows the error status, sends no SAVE_SETTINGS, and
\* leaves the stored settings, the map and the mirror as they were.
C15_EmptyCustomNameRejected ==
  [][\A form \in Forms :
       (/\ SubmitSettingsForm(form)
        /\ form.tokenType = "custom"
        /\ trim(form.customHeaderInput) = <<>>)
       => /\ saveStatus' = HeaderNameMissing
          /\ saveStatus'.type = "error"
          /\ UNCHANGED <<procs, localQ, sessionQ, storedSettings, detectedTokens,
                         sessionTokens, lastResponse>>]_vars

\* the error is shown while settings are stored and a token is collected
C15_Witness ==
  /\ saveStatus = HeaderNameMissing
  /\ storedSettings # <<>>
  /\ detectedTokens # <<>>
  /\ procs = {}

(***************************************************************************)
(* SpecExtract : extractTokenFromHeaders applied to lists of headers       *)
(***************************************************************************)
\* headers in one list
MaxHeaders == 3

AuthorizationUpper == <<"A","U","T","H","O","R","I","Z","A","T","I","O","N">>

SessionTokenName == <<"s","e","s","s","i","o","n","-","t","o","k","e","n">>

XSessionId == <<"X","-","S","e","s","s","i","o","n","-","I","D">>

XApiKeyUpper == <<"X","-","A","P","I","-","K","E","Y">>

XApiKeyHdr == <<"X","-","A","p","i","-","K","e","y">>

\* the headers a request may carry
HeaderPool ==
  { Hdr(Authorization, BearerSp \o TokA),
    Hdr(AuthorizationUpper, <<"b","e","a","r","e","r"," ","\t">> \o TokB),
    Hdr(Authorization, <<"B","a","s","i","c"," ">> \o TokC),
    Hdr(Authorization, BearerSp \o TokC \o <<" ">>),
    Hdr(Authorization, Undef),
    Hdr(XSessionToken, TokC),
    Hdr(SessionTokenName, <<>>),
    Hdr(XSessionId, TokB),
    Hdr(XApiKeyUpper, TokA),
    Hdr(XApiKeyHdr \o <<"-","2">>, TokB),
    Hdr(Accept, <<"*">>) }

HeaderLists == UNION {[1..n -> HeaderPool] : n \in 0..MaxHeaders}

ExtractSettings ==
  { DEFAULT_SETTINGS,
    [DEFAULT_SETTINGS EXCEPT !.tokenType = "session"],
    [DEFAULT_SETTINGS EXCEPT !.tokenType = "custom", !.customHeaderName = XApiKeyHdr],
    [DEFAULT_SETTINGS EXCEPT !.tokenType = "custom"] }

\* the worker and the pages are not running
Quiet ==
  /\ detectedTokens = <<>>
  /\ provenance = <<>>
  /\ overflow = {}
  /\ activeTabId = NoTab
  /\ storedSettings = <<>>
  /\ sessionTokens = <<>>
  /\ localQ = <<>>
  /\ sessionQ = <<>>
  /\ procs = {}
  /\ nEvents = 0
  /\ notified = 0
  /\ browserTab = 1
  /\ windowsOpen = MaxWindows
  /\ lastResponse = NoResponse
  /\ page = NoPage
  /\ clipboard = Undef
  /\ saveStatus = NoStatus
  /\ wiped = {}
  /\ faults = {}
  /\ maskIn = <<Undef, Undef>>
  /\ maskOut = <<NotMasked, NotMasked>>

ExtractInit ==
  /\ callIn \in [headers : HeaderLists, settings : ExtractSettings]
  /\ callOut = NotCalled
  /\ Quiet

\* handleWebRequest line 189: the call of extractTokenFromHeaders
CallExtract ==
  /\ ~callOut.done
  /\ callOut' = [done |-> TRUE,
                 result |-> extractTokenFromHeaders(callIn.headers, callIn.settings)]
  /\ UNCHANGED <<callIn, maskIn, maskOut, workerVars, storeVars, localQ, sessionQ,
                 procs, nEvents, notified, envVars, lastResponse, popupVars, wiped, faults>>

ExtractNext == CallExtract

SpecExtract == ExtractInit /\ [][ExtractNext]_vars

Called(tokenType) == callOut.done /\ callIn.settings.tokenType = tokenType

\* a value of the form 'Bearer <token>', the prefix in any case
BearerForm(value) ==
  /\ value # Undef
  /\ Len(value) >= 8
  /\ toLowerCase(SubSeq(value, 1, 6)) = Bearer
  /\ IsSpace(value[7])
  /\ trim(SubSeq(value, 8, Len(value))) # <<>>

\* the result C16 describes: the trimmed remainder of the first
\* authorization header of the form 'Bearer <token>', or null
RECURSIVE BearerAsClaimed(_)
BearerAsClaimed(headers) ==
  IF headers = <<>> THEN Null
  ELSE IF /\ toLowerCase(Head(headers).name) = toLowerCase(Authorization)
          /\ BearerForm(Head(headers).value)
       THEN trim(SubSeq(Head(headers).value, 8, Len(Head(headers).value)))
       ELSE BearerAsClaimed(Tail(headers))

\* C16 as claimed: with tokenType 'bearer' the result is the remainder,
\* trimmed of leading and trailing whitespace, of the first authorization
\* header of the form 'Bearer <token>'; other authorization headers are
\* skipped; null when there is none.
C16_BearerTrimmedRemainder ==
  Called("bearer") => callOut.result = BearerAsClaimed(callIn.headers)

\* the indices of the headers whose lower-cased name is in names
Named(headers, names) ==
  {i \in 1..Len(headers) : toLowerCase(headers[i].name) \in names}

\* the value of the first header whose lower-cased name is in names, or null
FirstValue(headers, names) ==
  IF Named(headers, names) = {} THEN Null
  ELSE headers[CHOOSE i \in Named(headers, names) :
                 \A j \in Named(headers, names) : i <= j].value

\* C17: with tokenType 'session' the result is, as it stands, the value of
\* the first header named x-session-token, session-token or x-session-id
\* (in any case), and null when the list has no such header.
C17_SessionFirstVerbatim ==
  Called("session") =>
    callOut.result = FirstValue(callIn.headers,
                { toLowerCase(XSessionToken), SessionTokenName, toLowerCase(XSessionId) })

\* a header of another name, then session-token with an empty value, then
\* x-session-id: the empty value is the result
C17_Witness ==
  /\ Called("session")
  /\ Len(callIn.headers) = 3
  /\ callIn.headers[1].name = Authorization
  /\ callIn.headers[2] = Hdr(SessionTokenName, <<>>)
  /\ callIn.headers[3].name = XSessionId
  /\ callOut.result = <<>>

\* C18: with tokenType 'custom' the result is, as it stands, the value of
\* the first header whose name equals customHeaderName in any case; it is
\* null when customHeaderName is empty or no name equals it, a name that
\* only contains it included.
C18_CustomExactName ==
  Called("custom") =>
    callOut.result = IF callIn.settings.customHeaderName = <<>> THEN Null
              ELSE FirstValue(callIn.headers,
                              {toLowerCase(callIn.settings.customHeaderName)})

\* X-Api-Key-2 comes first and is passed over for X-API-KEY
C18_Witness ==
  /\ Called("custom")
  /\ callIn.settings.customHeaderName = XApiKeyHdr
  /\ Len(callIn.headers) = 2
  /\ callIn.headers[1].name = XApiKeyHdr \o <<"-","2">>
  /\ callIn.headers[2].name = XApiKeyUpper
  /\ callOut.result = TokA

(***************************************************************************)
(* SpecScan : the storage and cookie scans applied to stores and cookies   *)
(***************************************************************************)
\* keys in localStorage / cookies of one page
MaxKeys == 2

\* keys in sessionStorage of one page
MaxSessionKeys == 1

V8 == GenToken(8, 1)

V10 == GenToken(10, 1)

V11 == GenToken(11, 2)

V30 == GenToken(30, 1)

Key_auth_token_v2 == <<"a","u","t","h","_","t","o","k","e","n","_","v","2">>

Key_auth_token_v2b == <<"a","u","t","h","_","t","o","k","e","n","_","v","2","b">>

Key_AccessToken == <<"A","c","c","e","s","s","T","o","k","e","n">>

Key_bearer_id == <<"b","e","a","r","e","r","_","i","d">>

Key_theme == <<"t","h","e","m","e">>

Key_SessionId == <<"S","e","s","s","i","o","n","I","d">>

Key_XApiKeyCache == XApiKeyHdr \o <<"-","c","a","c","h","e">>

Key_my_session_token == <<"m","y","_","s","e","s","s","i","o","n","_","t","o","k","e","n">>

\* the items a page may keep in localStorage or sessionStorage
ItemPool ==
  { KV(Key_auth_token_v2, V8), KV(Key_auth_token_v2b, V30), KV(Key_AccessToken, V11),
    KV(Key_bearer_id, V10), KV(Key_theme, V30), KV(Key_SessionId, V11),
    KV(Key_XApiKeyCache, TokA), KV(Key_my_session_token, <<>>) }

\* a Storage object holds a key once
Stores(n) ==
  {st \in UNION {[1..k -> ItemPool] : k \in 0..n} :
     \A i, j \in 1..Len(st) : i # j => st[i].key # st[j].key}

Name_JWT == <<"J","W","T">>

Name_SID == <<"S","I","D">>

Name_auth_token == <<"a","u","t","h","_","t","o","k","e","n">>

\* the cookies chrome.cookies.getAll may answer with
CookiePool ==
  { Cookie(Name_JWT, V30), Cookie(Name_SID, V11), Cookie(K_sessionid, V10),
    Cookie(Name_auth_token, V11), Cookie(Key_theme, V30), Cookie(XApiKeyUpper, TokA),
    Cookie(Key_AccessToken, V30) }

CookieJars == UNION {[1..k -> CookiePool] : k \in 0..MaxKeys}

ScanInputs ==
  [fn : {"storage"}, local : Stores(MaxKeys), session : Stores(MaxSessionKeys),
   cookies : {<<>>}, settings : ExtractSettings]
  \cup
  [fn : {"cookies"}, local : {<<>>}, session : {<<>>}, cookies : CookieJars,
   settings : ExtractSettings]

ScanInit ==
  /\ callIn \in ScanInputs
  /\ callOut = NotCalled
  /\ Quiet

\* the function injected by extractTokensFromStorage runs in the page
CallStorageScan ==
  /\ ~callOut.done
  /\ callIn.fn = "storage"
  /\ callOut' = [done |-> TRUE,
                 result |-> StorageScanFunc(callIn.local, callIn.session,
                                            callIn.settings.tokenType,
                                            callIn.settings.customHeaderName)]
  /\ UNCHANGED <<callIn, maskIn, maskOut, workerVars, storeVars, localQ, sessionQ,
                 procs, nEvents, notified, envVars, lastResponse, popupVars, wiped, faults>>

\* extractTokensFromCookies goes through the cookies it was answered
CallCookieScan ==
  /\ ~callOut.done
  /\ callIn.fn = "cookies"
  /\ callOut' = [done |-> TRUE, result |-> CookieScan(callIn.cookies, callIn.settings)]
  /\ UNCHANGED <<callIn, maskIn, maskOut, workerVars, storeVars, localQ, sessionQ,
                 procs, nEvents, notified, envVars, lastResponse, popupVars, wiped, faults>>

ScanNext ==
  \/ CallStorageScan
  \/ CallCookieScan

SpecScan == ScanInit /\ [][ScanNext]_vars

\* name, lower-cased, contains one of the keywords, lower-cased
HasKeyword(name, keywords) ==
  \E kw \in keywords :
    \E i \in 1..Len(name) :
      /\ i + Len(kw) - 1 <= Len(name)
      /\ \A k \in 1..Len(kw) : LowerChar(name[i + k - 1]) = LowerChar(kw[k])

\* the candidates of one store or cookie list: one for each item, in order,
\* whose name has a keyword and whose value is longer than 10
Candidates(names, values, keywords, label) ==
  LET hit == {i \in 1..Len(names) :
                HasKeyword(names[i], keywords) /\ Len(values[i]) > 10}
      nth(n) == CHOOSE i \in hit : Cardinality({j \in hit : j < i}) = n - 1
  IN [n \in 1..Cardinality(hit) |->
        [token |-> values[nth(n)], url |-> label \o names[nth(n)]]]

Keys(store) == [i \in 1..Len(store) |-> store[i].key]

Values(store) == [i \in 1..Len(store) |-> store[i].value]

ScanCalled(fn) == callOut.done /\ callIn.fn = fn

\* C19: the storage scan yields, for localStorage and then sessionStorage,
\* one candidate for each key that, lower-cased, contains a keyword of the
\* token type and whose value is longer than 10, and none for any other
\* key; the candidate's url is 'localStorage:<key>' or 'sessionStorage:<key>'.
C19_StorageCandidates ==
  ScanCalled("storage") =>
    LET keywords == StoragePatterns(callIn.settings.tokenType,
                                    callIn.settings.customHeaderName)
    IN callOut.result =
         Candidates(Keys(callIn.local), Values(callIn.local), keywords,
                    LocalStorageLabel)
         \o Candidates(Keys(callIn.session), Values(callIn.session), keywords,
                       SessionStorageLabel)

\* auth_token_v2 with a value of length 8 yields nothing, auth_token_v2b with
\* a value of length 30 yields the one candidate
C19_Witness ==
  /\ ScanCalled("storage")
  /\ callIn.settings.tokenType = "bearer"
  /\ callIn.local = <<KV(Key_auth_token_v2, V8), KV(Key_auth_token_v2b, V30)>>
  /\ callIn.session = <<>>
  /\ callOut.result = <<[token |-> V30, url |-> LocalStorageLabel \o Key_auth_token_v2b]>>

\* the cookie keywords of a token type, as the claim lists them
CookieKeywords(settings) ==
  CASE settings.tokenType = "bearer" -> {K_token, K_access_token, K_auth_token, K_bearer, K_jwt}
    [] settings.tokenType = "session" -> {K_session, K_sessionid, K_session_id, K_sid}
    [] settings.tokenType = "custom" ->
         IF settings.customHeaderName = <<>> THEN {}
         ELSE {settings.customHeaderName}

\* C20: the cookie scan yields one candidate, with url 'cookie:<name>', for
\* each cookie whose lower-cased name contains a cookie keyword of the token
\* type (jwt among those of bearer, sid among those of session, the
\* configured header name for custom) and whose value is longer than 10,
\* and none for any other cookie.
C20_CookieCandidates ==
  ScanCalled("cookies") =>
    /\ callOut.result = Candidates([i \in 1..Len(callIn.cookies) |-> callIn.cookies[i].name],
                            [i \in 1..Len(callIn.cookies) |-> callIn.cookies[i].value],
                            CookieKeywords(callIn.settings), CookieLabel)
    /\ Len(callOut.result) <= Len(callIn.cookies)

\* JWT is found through jwt; auth_token, which contains two keywords, is one
\* candidate
C20_Witness ==
  /\ ScanCalled("cookies")
  /\ callIn.settings.tokenType = "bearer"
  /\ callIn.cookies = <<Cookie(Name_JWT, V30), Cookie(Name_auth_token, V11)>>
  /\ callOut.result = <<[token |-> V30, url |-> CookieLabel \o Name_JWT],
                 [token |-> V11, url |-> CookieLabel \o Name_auth_token]>>

(***************************************************************************)
(* SpecMask : maskToken applied to tokens of every length                  *)
(***************************************************************************)

MaskInit ==
  /\ maskIn \in MaskInputs \X MaskInputs
  /\ maskOut = <<NotMasked, NotMasked>>
  /\ detectedTokens = <<>>
  /\ provenance = <<>>
  /\ overflow = {}
  /\ activeTabId = NoTab
  /\ storedSettings = <<>>
  /\ sessionTokens = <<>>
  /\ localQ = <<>>
  /\ sessionQ = <<>>
  /\ procs = {}
  /\ nEvents = 0
  /\ notified = 0
  /\ browserTab = 1
  /\ windowsOpen = MaxWindows
  /\ lastResponse = NoResponse
  /\ page = NoPage
  /\ clipboard = Undef
  /\ saveStatus = NoStatus
  /\ callIn = <<>>
  /\ callOut = NotCalled
  /\ wiped = {}
  /\ faults = {}

\* renderTokens evaluating maskToken(item.token) for card k (popup.js:120)
MaskCard(k) ==
  /\ maskOut[k] = NotMasked
  /\ maskOut' = [maskOut EXCEPT ![k] = maskToken(maskIn[k])]
  /\ UNCHANGED <<maskIn, callIn, callOut, workerVars, storeVars, localQ, sessionQ,
                 procs, nEvents, notified, envVars, lastResponse, popupVars, wiped, faults>>

MaskNext == \E k \in 1..2 : MaskCard(k)

SpecMask == MaskInit /\ [][MaskNext]_vars

TokLen(t) == IF t = Undef THEN 0 ELSE Len(t)

CharsOf(s) == {s[i] : i \in 1..Len(s)}

\* C8: the output of maskToken for a token of length >= 12 is the token's
\* first 4 characters, then mask glyphs only, then the token's last 4
\* characters; every shorter or missing token gives the one placeholder,
\* which is made of mask glyphs and shares no character with the token.
C8_MaskShape ==
  \A k \in 1..2 :
    maskOut[k] # NotMasked =>
      IF TokLen(maskIn[k]) >= 12
      THEN \E n \in 1..Len(maskIn[k]) :
             maskOut[k] = SubSeq(maskIn[k], 1, 4)
                          \o Repeat(MaskGlyph, n)
                          \o SubSeq(maskIn[k], Len(maskIn[k]) - 3, Len(maskIn[k]))
      ELSE /\ maskOut[k] = Placeholder
           /\ CharsOf(maskOut[k]) = CharsOf(MaskGlyph)
           /\ maskIn[k] # Undef => CharsOf(maskOut[k]) \cap CharsOf(maskIn[k]) = {}

C8_Witness ==
  /\ maskOut[1] # NotMasked /\ TokLen(maskIn[1]) = 12
  /\ maskOut[2] # NotMasked /\ maskIn[2] # Undef /\ TokLen(maskIn[2]) = 11

\* C10 as claimed: any two tokens of length >= 12 give masked strings of the
\* same length.
C10_FixedWidthAsClaimed ==
  (/\ maskOut[1] # NotMasked /\ maskOut[2] # NotMasked
   /\ TokLen(maskIn[1]) >= 12 /\ TokLen(maskIn[2]) >= 12)
  => Len(maskOut[1]) = Len(maskOut[2])

\* C10 amended: the masked middle of a token of length n >= 12 is
\* min(20, n - 8) mask glyphs, so it grows with the token up to length 28
\* and is the same from there on; only tokens of length >= 28 are
\* indistinguishable by the length of their masked strings.
C10_CappedWidth ==
  \A k \in 1..2 :
    (maskOut[k] # NotMasked /\ TokLen(maskIn[k]) >= 12) =>
      /\ SubSeq(maskOut[k], 5, Len(maskOut[k]) - 4)
           = Repeat(MaskGlyph, Min(20, Len(maskIn[k]) - 8))
      /\ Len(maskOut[k]) = 8 + Len(MaskGlyph) * Min(20, Len(maskIn[k]) - 8)
      /\ (TokLen(maskIn[3 - k]) >= 28 /\ TokLen(maskIn[k]) >= 28
          /\ maskOut[3 - k] # NotMasked)
         => Len(maskOut[1]) = Len(maskOut[2])

C10_Witness ==
  /\ maskOut[1] # NotMasked /\ maskOut[2] # NotMasked
  /\ TokLen(maskIn[1]) = 28 /\ TokLen(maskIn[2]) = 29

====
